---- MODULE Spec2Model ----
(***************************************************************************)
(* InteliCanvas: the scene-graph reducer, the ordering engine, the         *)
(* command validator, the director pipeline (normalizer, safety guard,     *)
(* stabilizer) and the server's request handlers, as a state machine.      *)
(*                                                                         *)
(* JSON values are modelled as follows.  A string-valued field that is     *)
(* missing holds Undef.  A field holding an object or an array is a        *)
(* "maybe": <<>> when the key is missing, <<v>> when it is present.        *)
(* Numbers are integers; scale is counted in tenths (scale 1.0 is 10).     *)
(***************************************************************************)
EXTENDS Integers, Sequences, FiniteSets, TLC

VARIABLES
    scene,      \* the scene graph the reducer is folding commands into
    last,       \* the last top-level command handed to the reducer (summary)
    canonical,  \* routes.ts: the server's canonical state
    inflight,   \* submit_utterance calls awaiting the model's answer
    received,   \* number of mutation requests the server has received
    applied,    \* request numbers in the order their effects hit the scene
    done,       \* what the last completed handler did
    guardRun,   \* stripDestructiveCommands: its arguments and its result
    replay,     \* applyCommands: a start scene, command lists and their results
    call,       \* a function of the program applied to an argument, and its result
    wire,       \* what the last handler broadcast to the connected clients
    state,      \* historyStore.ts: the state of the client's history store
    historyOp   \* the call of the history store that ran last

vars ==
    <<scene, last, canonical, inflight, received, applied, done, guardRun, replay,
      call, wire, state, historyOp>>

(***************************************************************************)
(* JSON encoding helpers                                                   *)
(***************************************************************************)
Undef == "undefined"
Null == "null"

None == <<>>
Some(v) == <<v>>
Has(m) == m # <<>>
Val(m) == m[1]

\* a transform field that is missing, resp. present but not a number
Missing == 0 - 1000001
NotNum == 0 - 1000002
IsNumber(v) == v # Missing /\ v # NotNum

(***************************************************************************)
(* shared/layering.ts                                                      *)
(***************************************************************************)
HORIZON_Y == 45

BACKDROP_TAGS ==
    {"sky", "field", "grass", "ground", "water", "sand",
     "background_backdrop", "backdrop"}

\* a semanticTag that is truthy but not a string (z.any() lets a patch carry one)
TagNonString == "#non-string"

\* String.prototype.toLowerCase over the tag vocabulary of the model
toLowerCase(s) ==
    CASE s = "Sky" -> "sky"
      [] s = "Field" -> "field"
      [] s = "Tree" -> "tree"
      [] s = "Delete" -> "delete"
      [] OTHER -> s

Falsy(s) == s \in {Undef, Null, ""}

\* semanticTag.toLowerCase() raises a TypeError when the tag is not a string
isBackdropThrows(semanticTag) == ~Falsy(semanticTag) /\ semanticTag = TagNonString

isBackdrop(semanticTag) ==
    IF Falsy(semanticTag) THEN FALSE
    ELSE toLowerCase(semanticTag) \in BACKDROP_TAGS

LAYER_RANK ==
    [sky |-> 0, background |-> 1, ground |-> 2, foreground |-> 3]

\* Property names every plain JS object inherits from Object.prototype: a read
\* obj[name] yields the inherited (truthy, non-numeric) value, not undefined.
ProtoKeys == {"constructor"}

\* the number NaN: it compares unequal to, and not greater than, everything
NaN == 0 - 1

UnknownLayerRank == 9

\* LAYER_RANK[layer] ?? 9; an inherited value is not nullish and is returned
getLayerRank(layer) ==
    IF layer \in DOMAIN LAYER_RANK THEN LAYER_RANK[layer]
    ELSE IF layer \in ProtoKeys THEN NaN
    ELSE UnknownLayerRank

getBackdropRank(semanticTag) == IF isBackdrop(semanticTag) THEN 0 ELSE 1

computeOrderKey(layer, semanticTag) ==
    IF getLayerRank(layer) = NaN THEN NaN
    ELSE getLayerRank(layer) * 100 + getBackdropRank(semanticTag) * 10

\* the JS comparisons a > b and a === b on numbers
Greater(a, b) == a # NaN /\ b # NaN /\ a > b
StrictEq(a, b) == a # NaN /\ b # NaN /\ a = b

(***************************************************************************)
(* shared/scene.ts, shared/vectorShapes.ts: the data model                 *)
(***************************************************************************)
SceneLayer == {"sky", "ground", "background", "foreground"}
SceneObjectStatus == {"preview", "committed"}

MinShapes == 1
MaxShapes == 60

CoordMin == 0
CoordMax == 100
ScaleMin == 1
ScaleMax == 30
RotationMin == 0 - 180
RotationMax == 180

Transform(x, y, scale, rotation) ==
    [x |-> x, y |-> y, scale |-> scale, rotation |-> rotation]

Rect(id, x, y, w, h) ==
    [id |-> id, type |-> "rect", x |-> x, y |-> y, width |-> w, height |-> h,
     radius |-> Missing, radiusX |-> Missing, radiusY |-> Missing, points |-> <<>>]

Circle(id, x, y, r) ==
    [id |-> id, type |-> "circle", x |-> x, y |-> y, width |-> Missing,
     height |-> Missing, radius |-> r, radiusX |-> Missing, radiusY |-> Missing,
     points |-> <<>>]

Ellipse(id, x, y, rx, ry) ==
    [id |-> id, type |-> "ellipse", x |-> x, y |-> y, width |-> Missing,
     height |-> Missing, radius |-> Missing, radiusX |-> rx, radiusY |-> ry,
     points |-> <<>>]

Polygon(id, points) ==
    [id |-> id, type |-> "polygon", x |-> Missing, y |-> Missing, width |-> Missing,
     height |-> Missing, radius |-> Missing, radiusX |-> Missing, radiusY |-> Missing,
     points |-> points]

Line(id, points) ==
    [id |-> id, type |-> "line", x |-> Missing, y |-> Missing, width |-> Missing,
     height |-> Missing, radius |-> Missing, radiusX |-> Missing, radiusY |-> Missing,
     points |-> points]

\* d is the path data, a string of at most 800 characters
Path(id, d) ==
    [id |-> id, type |-> "path", x |-> Missing, y |-> Missing, width |-> Missing,
     height |-> Missing, radius |-> Missing, radiusX |-> Missing, radiusY |-> Missing,
     points |-> <<>>, d |-> d]

\* a line given by its end points: no points key, and four keys of its own
LegacyLine(id, x1, y1, x2, y2) ==
    [id |-> id, type |-> "line", x |-> Missing, y |-> Missing, width |-> Missing,
     height |-> Missing, radius |-> Missing, radiusX |-> Missing, radiusY |-> Missing,
     points |-> <<>>, x1 |-> x1, y1 |-> y1, x2 |-> x2, y2 |-> y2]

\* the shape has no points key
NoPoints(s) == "x1" \in DOMAIN s

SceneObject(id, status, layer, transform, semanticTag, shapes) ==
    [id |-> id, status |-> status, layer |-> layer, transform |-> transform,
     semanticTag |-> semanticTag, shapes |-> shapes]

\* what {...f} yields for a function object f: no own enumerable property
EmptyObject == SceneObject(Undef, Undef, Undef, None, Undef, None)

(***************************************************************************)
(* shared/commands.ts: commands and patches                                *)
(***************************************************************************)
Patch(layer, status, transform, semanticTag, shapes) ==
    [layer |-> layer, status |-> status, transform |-> transform,
     semanticTag |-> semanticTag, shapes |-> shapes, extra |-> {}]

EmptyPatch == Patch(Undef, Undef, None, Undef, None)

\* a command with no key at all; the constructors below fill in keys
BlankCmd ==
    [type |-> Undef, id |-> Undef, object |-> None, patch |-> None,
     commands |-> None, intent |-> Undef, fill |-> Undef,
     command_type |-> Undef, objectId |-> Undef, object_id |-> Undef,
     object_type |-> Undef, layer |-> Undef, status |-> Undef,
     semanticTag |-> Undef, transform |-> None, shapes |-> None]

AddCmd(type, obj) == [BlankCmd EXCEPT !.type = type, !.object = Some(obj)]
UpdateCmd(type, id, patch) ==
    [BlankCmd EXCEPT !.type = type, !.id = id, !.patch = Some(patch)]
IdCmd(type, id) == [BlankCmd EXCEPT !.type = type, !.id = id]
IntentCmd(intent) == [BlankCmd EXCEPT !.type = "set_scene_intent", !.intent = intent]
FillCmd(fill) == [BlankCmd EXCEPT !.type = "set_ground_fill", !.fill = fill]
BatchCmd(cmds) == [BlankCmd EXCEPT !.type = "batch", !.commands = Some(cmds)]

\* zod: TransformSchema
ValidTransform(t) ==
    /\ IsNumber(t.x) /\ t.x >= CoordMin /\ t.x <= CoordMax
    /\ IsNumber(t.y) /\ t.y >= CoordMin /\ t.y <= CoordMax
    /\ IsNumber(t.scale) /\ t.scale >= ScaleMin /\ t.scale <= ScaleMax
    /\ IsNumber(t.rotation) /\ t.rotation >= RotationMin /\ t.rotation <= RotationMax

\* zod: VectorShapeSchema (rect, circle, ellipse, line, polygon and path variants)
ValidShape(s) ==
    /\ s.id # Undef
    /\ CASE s.type = "rect" ->
              /\ IsNumber(s.x) /\ IsNumber(s.y)
              /\ IsNumber(s.width) /\ s.width >= 0
              /\ IsNumber(s.height) /\ s.height >= 0
         [] s.type = "circle" ->
              IsNumber(s.x) /\ IsNumber(s.y) /\ IsNumber(s.radius) /\ s.radius >= 0
         [] s.type = "ellipse" ->
              /\ IsNumber(s.x) /\ IsNumber(s.y)
              /\ IsNumber(s.radiusX) /\ s.radiusX >= 0
              /\ IsNumber(s.radiusY) /\ s.radiusY >= 0
         [] s.type = "line" ->
              ~NoPoints(s) /\ Len(s.points) <= 200 /\ Len(s.points) % 2 = 0
         [] s.type = "polygon" -> Len(s.points) <= 200
         [] s.type = "path" -> "d" \in DOMAIN s
         [] OTHER -> FALSE

\* zod: SemanticTagSchema = z.string().min(1).max(32), optional
ValidSemanticTag(tag) == tag = Undef \/ (tag \notin {Null, "", TagNonString})

\* zod: SceneObjectSchema
ValidSceneObject(o) ==
    /\ o.id # Undef
    /\ o.status \in SceneObjectStatus
    /\ o.layer \in SceneLayer
    /\ Has(o.transform) /\ ValidTransform(Val(o.transform))
    /\ ValidSemanticTag(o.semanticTag)
    /\ Has(o.shapes)
    /\ Len(Val(o.shapes)) >= MinShapes /\ Len(Val(o.shapes)) <= MaxShapes
    /\ \A i \in 1..Len(Val(o.shapes)) : ValidShape(Val(o.shapes)[i])

\* a patch schema that lets every key through
ValidPatchAnyKey(p) == TRUE

\* zod: PatchSchema: every field z.any(), .strict(), no id or type key
ValidPatch(p) == p.extra = {}

\* zod: DrawingCommandSchema (discriminated on type)
RECURSIVE ValidCommand(_)

\* the schema without the two refinements on object.status
ValidCommandAnyStatus(c) ==
    CASE c.type = "set_scene_intent" -> c.intent # Undef
      [] c.type \in {"add_preview_object", "add_object"} ->
            Has(c.object) /\ ValidSceneObject(Val(c.object))
      [] c.type \in {"update_preview_object", "update_object"} ->
            c.id # Undef /\ Has(c.patch) /\ ValidPatch(Val(c.patch))
      [] c.type \in {"commit_preview_object", "cancel_preview_object", "delete_object"} ->
            c.id # Undef
      [] c.type = "set_ground_fill" -> c.fill # Undef
      [] c.type = "batch" ->
            Has(c.commands)
            /\ \A i \in 1..Len(Val(c.commands)) : ValidCommand(Val(c.commands)[i])
      [] OTHER -> FALSE

ValidCommand(c) ==
    CASE c.type = "set_scene_intent" -> c.intent # Undef
      [] c.type = "add_preview_object" ->
            Has(c.object) /\ ValidSceneObject(Val(c.object))
            /\ Val(c.object).status = "preview"
      [] c.type = "add_object" ->
            Has(c.object) /\ ValidSceneObject(Val(c.object))
            /\ Val(c.object).status = "committed"
      [] c.type \in {"update_preview_object", "update_object"} ->
            c.id # Undef /\ Has(c.patch) /\ ValidPatch(Val(c.patch))
      [] c.type \in {"commit_preview_object", "cancel_preview_object", "delete_object"} ->
            c.id # Undef
      [] c.type = "set_ground_fill" -> c.fill # Undef
      [] c.type = "batch" ->
            Has(c.commands)
            /\ \A i \in 1..Len(Val(c.commands)) : ValidCommand(Val(c.commands)[i])
      [] OTHER -> FALSE

\* zod returns the parsed data: unknown keys of a command object are dropped
RECURSIVE ParsedCommand(_)
ParsedCommand(c) ==
    CASE c.type = "set_scene_intent" -> IntentCmd(c.intent)
      [] c.type \in {"add_preview_object", "add_object"} -> AddCmd(c.type, Val(c.object))
      [] c.type \in {"update_preview_object", "update_object"} ->
            UpdateCmd(c.type, c.id, Val(c.patch))
      [] c.type \in {"commit_preview_object", "cancel_preview_object", "delete_object"} ->
            IdCmd(c.type, c.id)
      [] c.type = "set_ground_fill" -> FillCmd(c.fill)
      [] c.type = "batch" ->
            BatchCmd([i \in 1..Len(Val(c.commands)) |-> ParsedCommand(Val(c.commands)[i])])
      [] OTHER -> c

(***************************************************************************)
(* server/reducer.ts                                                       *)
(***************************************************************************)
\* Own keys of a JS object are the DOMAIN of the function; a property read
\* objects[id] also sees what Object.prototype supplies (see ProtoKeys).
Truthy(objects, id) == id \in DOMAIN objects \/ id \in ProtoKeys

Get(objects, id) ==
    IF id \in DOMAIN objects THEN objects[id] ELSE EmptyObject

Put(objects, id, obj) ==
    [k \in DOMAIN objects \cup {id} |-> IF k = id THEN obj ELSE objects[k]]

Remove(objects, id) ==
    IF DOMAIN objects \ {id} = {} THEN <<>>
    ELSE [k \in DOMAIN objects \ {id} |-> objects[k]]

Max2(a, b) == IF a > b THEN a ELSE b
Min2(a, b) == IF a < b THEN a ELSE b

\* a clamp that forgets the lower bound
clampUpperOnly(n, lo, hi) == Min2(hi, n)

clamp(n, lo, hi) == Max2(lo, Min2(hi, n))

DefaultX == 50
DefaultY == 50
DefaultScale == 10
DefaultRotation == 0

clampTransform(t) ==
    Transform(
        clamp(IF IsNumber(t.x) THEN t.x ELSE DefaultX, CoordMin, CoordMax),
        clamp(IF IsNumber(t.y) THEN t.y ELSE DefaultY, CoordMin, CoordMax),
        clamp(IF IsNumber(t.scale) THEN t.scale ELSE DefaultScale, ScaleMin, ScaleMax),
        clamp(IF IsNumber(t.rotation) THEN t.rotation ELSE DefaultRotation,
              RotationMin, RotationMax))

\* { ...a, ...b } for two partial transforms given as maybes
NoFields == Transform(Missing, Missing, Missing, Missing)

SpreadTransform(a, b) ==
    LET ta == IF Has(a) THEN Val(a) ELSE NoFields
        tb == IF Has(b) THEN Val(b) ELSE NoFields
        pick(f) == IF tb[f] # Missing THEN tb[f] ELSE ta[f]
    IN Transform(pick("x"), pick("y"), pick("scale"), pick("rotation"))

orderKey(obj) == computeOrderKey(obj.layer, obj.semanticTag)

Filter(seq, id) == SelectSeq(seq, LAMBDA x : x # id)

\* index (0-based) of the first element whose key is greater than k
RECURSIVE FirstGreater(_, _, _, _)
FirstGreater(objects, without, k, idx) ==
    IF idx >= Len(without) THEN idx
    ELSE IF without[idx + 1] \in DOMAIN objects
            /\ Greater(orderKey(objects[without[idx + 1]]), k)
         THEN idx
         ELSE FirstGreater(objects, without, k, idx + 1)

Splice(seq, idx, x) ==
    SubSeq(seq, 1, idx) \o <<x>> \o SubSeq(seq, idx + 1, Len(seq))

insertIntoOrderAtEnd(sc, id) == Filter(sc.order, id) \o <<id>>

insertIntoOrder(sc, id) ==
    IF ~Truthy(sc.objects, id) THEN sc.order
    ELSE LET k == orderKey(Get(sc.objects, id))
             without == Filter(sc.order, id)
         IN Splice(without, FirstGreater(sc.objects, without, k, 0), id)

createEmptyScene == [intent |-> Null, objects |-> <<>>, order |-> <<>>]

Ok(sc) == [threw |-> FALSE, scene |-> sc]
Threw(sc) == [threw |-> TRUE, scene |-> sc]

applyAdd(sc, command) ==
    LET obj == Val(command.object) IN
    IF Truthy(sc.objects, obj.id) THEN Ok(sc)
    ELSE LET nextObjects == Put(sc.objects, obj.id, obj)
             nextScene == [sc EXCEPT !.objects = nextObjects]
         IN Ok([sc EXCEPT !.objects = nextObjects,
                          !.order = insertIntoOrder(nextScene, obj.id)])

Updated(existing, patch) ==
    [existing EXCEPT
        !.layer = IF patch.layer # Undef THEN patch.layer ELSE @,
        !.status = IF patch.status # Undef THEN patch.status ELSE @,
        !.semanticTag = IF patch.semanticTag # Undef THEN patch.semanticTag ELSE @,
        !.transform = IF Has(patch.transform)
                      THEN Some(clampTransform(SpreadTransform(@, patch.transform)))
                      ELSE @,
        !.shapes = IF Has(patch.shapes) THEN patch.shapes ELSE @]

applyUpdate(sc, command) ==
    IF ~Truthy(sc.objects, command.id) THEN Ok(sc)
    ELSE LET existing == Get(sc.objects, command.id)
             updated == Updated(existing, Val(command.patch))
             nextObjects == Put(sc.objects, command.id, updated)
             nextScene == [sc EXCEPT !.objects = nextObjects]
         IN IF isBackdropThrows(existing.semanticTag)
               \/ isBackdropThrows(updated.semanticTag)
            THEN Threw(sc)
            ELSE IF StrictEq(orderKey(existing), orderKey(updated))
            THEN Ok(nextScene)
            ELSE Ok([nextScene EXCEPT !.order = insertIntoOrder(nextScene, command.id)])

applyCommit(sc, command) ==
    IF ~Truthy(sc.objects, command.id) THEN Ok(sc)
    ELSE LET existing == Get(sc.objects, command.id) IN
         IF existing.status = "committed" THEN Ok(sc)
         ELSE Ok([sc EXCEPT !.objects =
                    Put(sc.objects, command.id, [existing EXCEPT !.status = "committed"])])

\* cancel_preview_object removing previews only
applyDeletePreviewOnly(sc, command) ==
    IF ~Truthy(sc.objects, command.id) THEN Ok(sc)
    ELSE IF command.type = "cancel_preview_object"
            /\ Get(sc.objects, command.id).status # "preview"
    THEN Ok(sc)
    ELSE Ok([sc EXCEPT !.objects = Remove(sc.objects, command.id),
                       !.order = Filter(sc.order, command.id)])

applyDelete(sc, command) ==
    IF ~Truthy(sc.objects, command.id) THEN Ok(sc)
    ELSE Ok([sc EXCEPT !.objects = Remove(sc.objects, command.id),
                       !.order = Filter(sc.order, command.id)])

RECURSIVE applyCommand(_, _)
RECURSIVE applyCommands(_, _)

\* a batch applying none of its inner commands
applyCommandSkipsBatch(sc, command) ==
    CASE command.type = "set_scene_intent" -> Ok([sc EXCEPT !.intent = command.intent])
      [] command.type \in {"add_preview_object", "add_object"} -> applyAdd(sc, command)
      [] command.type \in {"update_preview_object", "update_object"} ->
            applyUpdate(sc, command)
      [] command.type = "commit_preview_object" -> applyCommit(sc, command)
      [] command.type \in {"cancel_preview_object", "delete_object"} ->
            applyDelete(sc, command)
      [] OTHER -> Ok(sc)

applyCommand(sc, command) ==
    CASE command.type = "set_scene_intent" -> Ok([sc EXCEPT !.intent = command.intent])
      [] command.type \in {"add_preview_object", "add_object"} -> applyAdd(sc, command)
      [] command.type \in {"update_preview_object", "update_object"} ->
            applyUpdate(sc, command)
      [] command.type = "commit_preview_object" -> applyCommit(sc, command)
      [] command.type \in {"cancel_preview_object", "delete_object"} ->
            applyDelete(sc, command)
      [] command.type \in {"set_background_gradient", "set_ground_fill", "set_path"} ->
            Ok(sc)
      [] command.type = "batch" -> applyCommands(sc, Val(command.commands))
      [] OTHER -> Ok(sc)

\* a fold that returns what it had built when a command throws
RECURSIVE applyCommandsKeepsPartial(_, _)
applyCommandsKeepsPartial(sc, commands) ==
    IF commands = <<>> THEN Ok(sc)
    ELSE LET r == applyCommand(sc, Head(commands)) IN
         IF r.threw THEN Ok(sc)
         ELSE applyCommandsKeepsPartial(r.scene, Tail(commands))

\* the fold stopping after the first command of the list
applyCommandsHeadOnly(sc, commands) ==
    IF commands = <<>> THEN Ok(sc) ELSE applyCommand(sc, Head(commands))

applyCommands(sc, commands) ==
    IF commands = <<>> THEN Ok(sc)
    ELSE LET r == applyCommand(sc, Head(commands)) IN
         IF r.threw THEN Threw(sc)
         ELSE LET rest == applyCommands(r.scene, Tail(commands)) IN
              IF rest.threw THEN Threw(sc) ELSE rest

(***************************************************************************)
(* Inputs of the reducer specification                                     *)
(***************************************************************************)
MaxBatchLen == 1
MaxBatchDepth == 2

Ids == {"sky-1", "tree-1"}
AllIds == Ids \cup ProtoKeys

DefaultTransform == Transform(50, 50, 10, 0)
OneShape == <<Rect("r1", 0, 0, 10, 10)>>

StatusFor(type) == IF type = "add_preview_object" THEN "preview" ELSE "committed"

NewObject(id, status, layer, tag) ==
    SceneObject(id, status, layer, Some(DefaultTransform), tag, Some(OneShape))

AddTypes == {"add_preview_object", "add_object"}
UpdateTypes == {"update_preview_object", "update_object"}
DeleteTypes == {"cancel_preview_object", "delete_object"}


TagFor(id) == IF id = "sky-1" THEN "sky" ELSE "tree"

AddInputs ==
    {c \in {AddCmd(t, NewObject(id, StatusFor(t), layer, TagFor(id))) :
                t \in AddTypes, id \in Ids, layer \in SceneLayer}
            \cup {AddCmd("add_object", NewObject(id, "committed", "sky", Undef)) :
                    id \in ProtoKeys} :
        ValidCommand(c)}

\* z.any(): a patch may carry a layer that is no SceneLayer, a semanticTag that
\* is no string, and any status
JunkLayers == ProtoKeys

PatchInputs ==
    {EmptyPatch}
    \cup {Patch(l, Undef, None, Undef, None) : l \in SceneLayer \cup JunkLayers}
    \cup {Patch(Undef, Undef, None, t, None) : t \in {"sky", TagNonString}}
    \cup {Patch(Undef, "preview", None, Undef, None)}

UpdateInputs ==
    {c \in {UpdateCmd("update_object", id, p) : id \in Ids, p \in PatchInputs}
            \cup {UpdateCmd("update_preview_object", id, Patch("sky", Undef, None, Undef, None)) :
                    id \in Ids}
            \cup {UpdateCmd(t, id, EmptyPatch) : t \in UpdateTypes, id \in AllIds} :
        ValidCommand(c)}

CommitInputs == {IdCmd("commit_preview_object", id) : id \in Ids}
DeleteInputs == {IdCmd(t, id) : t \in DeleteTypes, id \in AllIds}
IntentInputs == {IntentCmd(i) : i \in {Null, "a calm meadow"}}
FillInputs == {FillCmd("#3db85a")}

BatchLeaves ==
    {AddCmd("add_preview_object", NewObject("sky-1", "preview", "sky", "sky")),
     IdCmd("delete_object", "tree-1")}

RECURSIVE SeqsUpTo(_, _)
SeqsUpTo(S, n) ==
    IF n = 0 THEN {<<>>}
    ELSE LET shorter == SeqsUpTo(S, n - 1)
         IN shorter \cup {Append(q, x) : q \in shorter, x \in S}

\* pre, then inner wrapped in d levels of batch
RECURSIVE NestedBatch(_, _, _)
NestedBatch(pre, inner, d) ==
    IF d <= 1 THEN BatchCmd(pre \o inner)
    ELSE BatchCmd(pre \o <<NestedBatch(<<>>, inner, d - 1)>>)

BatchInputs ==
    {NestedBatch(pre, inner, d) :
        pre \in SeqsUpTo(BatchLeaves, MaxBatchLen),
        inner \in SeqsUpTo(BatchLeaves, MaxBatchLen),
        d \in 1..MaxBatchDepth}

(***************************************************************************)
(* Utterances.  An utterance is a sequence of words; the director's        *)
(* regular expressions test for whole words (\b...\b) ignoring case, and   *)
(* the includes() tests are on the lower-cased text.                       *)
(***************************************************************************)
HasPhrase(utterance, phrase) ==
    LET lower == [i \in 1..Len(utterance) |-> toLowerCase(utterance[i])] IN
    \E i \in 1..(Len(lower) - Len(phrase) + 1) :
        SubSeq(lower, i, i + Len(phrase) - 1) = phrase

HasAny(utterance, phrases) == \E p \in phrases : HasPhrase(utterance, p)

\* the test with its sense inverted
userWantsDeleteInverted(utterance) ==
    ~HasAny(utterance, {<<"delete">>, <<"remove">>, <<"erase">>, <<"clear">>,
                        <<"get", "rid">>, <<"discard">>, <<"wipe">>})

userExplicitlyWantsDelete(utterance) ==
    HasAny(utterance, {<<"delete">>, <<"remove">>, <<"erase">>, <<"clear">>,
                       <<"get", "rid">>, <<"discard">>, <<"wipe">>})

\* the cancel test reading the delete words as well
userWantsCancelOrDelete(utterance) ==
    HasAny(utterance, {<<"cancel">>, <<"discard">>, <<"undo">>, <<"delete">>,
                       <<"remove">>, <<"erase">>, <<"clear">>, <<"wipe">>})

userExplicitlyWantsCancel(utterance) ==
    HasAny(utterance, {<<"cancel">>, <<"discard">>, <<"undo">>})

\* the conversion test without its last phrase
userWantsConvertFourPhrases(utterance) ==
    HasAny(utterance, {<<"turn", "into">>, <<"convert">>, <<"transform">>,
                       <<"change", "into">>})

userExplicitlyWantsConvert(utterance) ==
    HasAny(utterance, {<<"turn", "into">>, <<"convert">>, <<"transform">>,
                       <<"change", "into">>, <<"make", "it", "into">>})

wantsTexture(utterance) ==
    HasAny(utterance, {<<"texture">>, <<"pattern">>, <<"rows">>, <<"row">>,
                       <<"detailed">>, <<"details">>, <<"tufts">>, <<"rice">>,
                       <<"plants">>, <<"grass", "blades">>, <<"grass", "blade">>})

coverageModeFromUtterance(u) ==
    IF \/ HasAny(u, {<<a, b>> : a \in {"full", "whole", "entire"},
                                b \in {"canvas", "screen"}})
       \/ HasAny(u, {<<a, b>> : a \in {"cover", "fill"}, b \in {"canvas", "screen"}})
       \/ HasAny(u, {<<a, "the", b>> : a \in {"cover", "fill"}, b \in {"canvas", "screen"}})
       \/ HasPhrase(u, <<"background">>)
    THEN "full_canvas"
    ELSE "default"

\* shared/layering.ts
hasFullCanvasIntent(utterance) ==
    HasAny(utterance, {<<"whole", "canvas">>, <<"full", "canvas">>, <<"entire", "canvas">>,
                       <<"fill", "canvas">>, <<"top", "to", "bottom">>,
                       <<"cover", "screen">>, <<"full", "screen">>,
                       <<"cover", "everything">>, <<"entire", "screen">>,
                       <<"whole", "screen">>})

getDefaultBounds(semanticTag, fullCanvas) ==
    IF fullCanvas THEN [x1 |-> 0, x2 |-> 100, y1 |-> 0, y2 |-> 100]
    ELSE IF toLowerCase(semanticTag) = "sky"
    THEN [x1 |-> 0, x2 |-> 100, y1 |-> 0, y2 |-> HORIZON_Y]
    ELSE IF toLowerCase(semanticTag) \in {"grass", "field", "ground"}
    THEN [x1 |-> 0, x2 |-> 100, y1 |-> HORIZON_Y, y2 |-> 100]
    ELSE [x1 |-> 0, x2 |-> 100, y1 |-> 0, y2 |-> 100]

(***************************************************************************)
(* commandDirector.ts: envelopes and the normalizer                        *)
(***************************************************************************)
\* notes is a maybe holding the text as a sequence of fragments; refused is a
\* maybe holding a boolean; commands is a maybe holding the command array
Envelope(commands, notes, refused, refusalReason) ==
    [commands |-> commands, notes |-> notes, refused |-> refused,
     refusalReason |-> refusalReason]

createRefusedEnvelope(reason, notes) ==
    Envelope(Some(<<>>), Some(<<notes>>), Some(TRUE), reason)

\* What JSON.parse made of the model's text: json says what the value is (an
\* envelope object, an object holding one under the key envelope, a single
\* command object, or a scalar); env resp. cmd hold it.
Candidate(json, env, cmd) == [json |-> json, env |-> env, cmd |-> cmd]

NoEnvelope == Envelope(None, None, None, Undef)

normalizeToEnvelope(candidate) ==
    LET c == IF candidate.json = "wrapped"
             THEN [candidate EXCEPT !.json = "envelope"] ELSE candidate
    IN CASE c.json = "scalar" -> c
         [] c.json = "envelope" ->
              IF (Has(c.env.refused) \/ c.env.refusalReason # Undef \/ Has(c.env.notes))
                 /\ ~Has(c.env.commands)
              THEN [c EXCEPT !.env.commands = Some(<<>>)]
              ELSE c
         [] c.json = "command" ->
              IF c.cmd.type # Undef
              THEN Candidate("envelope", [NoEnvelope EXCEPT !.commands = Some(<<c.cmd>>)],
                             BlankCmd)
              ELSE c
         [] OTHER -> c

\* `obj_${object_type}_${Date.now()}`: one id stands for the generated ones
GeneratedId == "obj_generated"

LegacyX == 50
LegacyY == 70

clamp01to100(n) == Max2(0, Min2(100, n))

\* a wrapper synthesis that does not look whether the add has an object
normalizeLegacyCommandRewraps(cmd) ==
    LET c1 == IF cmd.type = Undef /\ cmd.command_type # Undef
              THEN [cmd EXCEPT !.type = cmd.command_type, !.command_type = Undef]
              ELSE cmd
        c2 == IF c1.object_id # Undef /\ Falsy(c1.objectId)
              THEN [c1 EXCEPT !.objectId = c1.object_id, !.object_id = Undef]
              ELSE c1
    IN IF c2.type \in {"add_preview_object", "add_object"}
       THEN LET id == IF c2.object_id # Undef THEN c2.object_id
                      ELSE IF c2.objectId # Undef THEN c2.objectId
                      ELSE GeneratedId
                shapes == IF Has(c2.shapes)
                          THEN [i \in 1..Len(Val(c2.shapes)) |->
                                  LET sh == Val(c2.shapes)[i] IN
                                  [sh EXCEPT
                                     !.x = IF IsNumber(@) THEN clamp01to100(@) ELSE @,
                                     !.y = IF IsNumber(@) THEN clamp01to100(@) ELSE @,
                                     !.points = [j \in 1..Len(@) |-> clamp01to100(@[j])]]]
                          ELSE <<>>
            IN AddCmd(c2.type,
                      SceneObject(id,
                                  IF c2.type = "add_preview_object"
                                  THEN "preview" ELSE "committed",
                                  IF c2.layer \in {Undef, Null} THEN "ground" ELSE c2.layer,
                                  IF Has(c2.transform) THEN c2.transform
                                  ELSE Some(Transform(LegacyX, LegacyY, DefaultScale, 0)),
                                  c2.object_type,
                                  Some(shapes)))
       ELSE c2

normalizeLegacyCommand(cmd) ==
    LET c1 == IF cmd.type = Undef /\ cmd.command_type # Undef
              THEN [cmd EXCEPT !.type = cmd.command_type, !.command_type = Undef]
              ELSE cmd
        c2 == IF c1.object_id # Undef /\ Falsy(c1.objectId)
              THEN [c1 EXCEPT !.objectId = c1.object_id, !.object_id = Undef]
              ELSE c1
    IN IF c2.type \in {"add_preview_object", "add_object"} /\ ~Has(c2.object)
       THEN LET id == IF c2.object_id # Undef THEN c2.object_id
                      ELSE IF c2.objectId # Undef THEN c2.objectId
                      ELSE GeneratedId
                shapes == IF Has(c2.shapes)
                          THEN [i \in 1..Len(Val(c2.shapes)) |->
                                  LET sh == Val(c2.shapes)[i] IN
                                  [sh EXCEPT
                                     !.x = IF IsNumber(@) THEN clamp01to100(@) ELSE @,
                                     !.y = IF IsNumber(@) THEN clamp01to100(@) ELSE @,
                                     !.points = [j \in 1..Len(@) |-> clamp01to100(@[j])]]]
                          ELSE <<>>
            IN AddCmd(c2.type,
                      SceneObject(id,
                                  IF c2.type = "add_preview_object"
                                  THEN "preview" ELSE "committed",
                                  IF c2.layer \in {Undef, Null} THEN "ground" ELSE c2.layer,
                                  IF Has(c2.transform) THEN c2.transform
                                  ELSE Some(Transform(LegacyX, LegacyY, DefaultScale, 0)),
                                  c2.object_type,
                                  Some(shapes)))
       ELSE c2

COMMANDS_THAT_REQUIRE_TARGET_ID ==
    {"update_preview_object", "commit_preview_object", "cancel_preview_object",
     "update_object", "delete_object", "set_path"}

RECURSIVE normalizeTargetId(_)
normalizeTargetId(cmd) ==
    LET c1 == IF cmd.type \in COMMANDS_THAT_REQUIRE_TARGET_ID
              THEN LET target == IF ~Falsy(cmd.id) THEN cmd.id
                                 ELSE IF ~Falsy(cmd.objectId) THEN cmd.objectId
                                 ELSE IF ~Falsy(cmd.object_id) THEN cmd.object_id
                                 ELSE Undef
                   IN [cmd EXCEPT !.id = IF target # Undef THEN target ELSE @,
                                  !.objectId = Undef, !.object_id = Undef]
              ELSE cmd
    IN IF c1.type = "batch" /\ Has(c1.commands)
       THEN [c1 EXCEPT !.commands =
                Some([i \in 1..Len(Val(@)) |-> normalizeTargetId(Val(@)[i])])]
       ELSE c1

\* Object.keys(patch).length
PatchKeys(p) ==
    {k \in {"layer", "status", "semanticTag"} : p[k] # Undef}
    \cup {k \in {"transform", "shapes"} : Has(p[k])} \cup p.extra

RECURSIVE normalizeMissingPatch(_)
normalizeMissingPatch(cmd) ==
    IF cmd.type = "batch" /\ Has(cmd.commands)
    THEN [cmd EXCEPT !.commands =
             Some([i \in 1..Len(Val(@)) |-> normalizeMissingPatch(Val(@)[i])])]
    ELSE IF cmd.type \notin {"update_object", "update_preview_object"} THEN cmd
    ELSE LET p0 == IF Has(cmd.patch) THEN Val(cmd.patch) ELSE EmptyPatch
             p1 == [p0 EXCEPT
                      !.transform = IF Has(cmd.transform) /\ ~Has(@) THEN cmd.transform ELSE @,
                      !.shapes = IF Has(cmd.shapes) /\ ~Has(@) THEN cmd.shapes ELSE @]
             o == IF Has(cmd.object) THEN Val(cmd.object) ELSE EmptyObject
             p2 == [p1 EXCEPT
                      !.transform = IF Has(o.transform) /\ ~Has(@) THEN o.transform ELSE @,
                      !.shapes = IF Has(o.shapes) /\ ~Has(@) THEN o.shapes ELSE @,
                      !.semanticTag = IF ~Falsy(o.semanticTag) /\ Falsy(@)
                                      THEN o.semanticTag ELSE @,
                      !.layer = IF ~Falsy(o.layer) /\ Falsy(@) THEN o.layer ELSE @,
                      !.status = IF ~Falsy(o.status) /\ Falsy(@) THEN o.status ELSE @]
         IN IF PatchKeys(p2) = {} THEN cmd
            ELSE [cmd EXCEPT !.transform = None, !.shapes = None, !.object = None,
                             !.patch = Some(p2)]

\* the JSON value null where a command object is expected
JsonNull == [BlankCmd EXCEPT !.type = "#json-null"]

\* commands.map((c) => ... normalized.type ...): the three normalizers hand a
\* null element back as it is, and reading its type is a TypeError
normalizeCommandArrayThrows(commands) ==
    \E i \in 1..Len(commands) : commands[i] = JsonNull

normalizeLineShape(shape) ==
    IF shape.type = "line" /\ NoPoints(shape)
       /\ IsNumber(shape.x1) /\ IsNumber(shape.y1)
       /\ IsNumber(shape.x2) /\ IsNumber(shape.y2)
    THEN Line(shape.id, <<shape.x1, shape.y1, shape.x2, shape.y2>>)
    ELSE shape

normalizeShapes(shapes) ==
    [i \in 1..Len(shapes) |-> normalizeLineShape(shapes[i])]

normalizeShapesInObject(obj) ==
    IF Has(obj.shapes) THEN [obj EXCEPT !.shapes = Some(normalizeShapes(Val(@)))] ELSE obj

\* what commands.map((c) => ...) makes of one element
normalizeCommandArrayElement(c) ==
    LET normalized == normalizeMissingPatch(normalizeTargetId(normalizeLegacyCommand(c)))
    IN IF normalized.type \in {"add_preview_object", "add_object"} /\ Has(normalized.object)
       THEN [normalized EXCEPT !.object = Some(normalizeShapesInObject(Val(@)))]
       ELSE IF normalized.type \in {"update_preview_object", "update_object"}
               /\ Has(normalized.patch) /\ Has(Val(normalized.patch).shapes)
       THEN [normalized EXCEPT
                !.patch = Some([Val(@) EXCEPT !.shapes = Some(normalizeShapes(Val(@)))])]
       ELSE normalized

normalizeCommandArray(commands) ==
    [i \in 1..Len(commands) |-> normalizeCommandArrayElement(commands[i])]

\* zod: CommandEnvelopeSchema.safeParse, success
ValidEnvelope(candidate) ==
    /\ candidate.json = "envelope"
    /\ Has(candidate.env.commands)
    /\ \A i \in 1..Len(Val(candidate.env.commands)) :
          ValidCommand(Val(candidate.env.commands)[i])

\* zod: CommandEnvelopeSchema.safeParse, data
ParsedEnvelope(candidate) ==
    [candidate.env EXCEPT !.commands =
        Some([i \in 1..Len(Val(@)) |-> ParsedCommand(Val(@)[i])])]

(***************************************************************************)
(* commandDirector.ts: the safety guard                                    *)
(***************************************************************************)
RECURSIVE stripDestructiveCommands(_, _)

\* a guard that cleans the inside of a batch and forgets to count what it
\* suppressed there
stripDestructiveCommandsOuterCount(cmds, utterance) ==
    IF cmds = <<>> THEN [cmds |-> <<>>, removed |-> 0, strippedSemantic |-> 0]
    ELSE LET cmd == Head(cmds)
             rest == stripDestructiveCommands(Tail(cmds), utterance)
             one ==
               CASE cmd.type = "batch" /\ Has(cmd.commands) ->
                      [cmds |-> <<[cmd EXCEPT !.commands =
                                      Some(stripDestructiveCommands(
                                               Val(cmd.commands), utterance).cmds)]>>,
                       removed |-> 0, strippedSemantic |-> 0]
                 [] cmd.type = "delete_object" /\ ~userExplicitlyWantsDelete(utterance) ->
                      [cmds |-> <<>>, removed |-> 1, strippedSemantic |-> 0]
                 [] cmd.type = "cancel_preview_object"
                        /\ ~userExplicitlyWantsCancel(utterance) ->
                      [cmds |-> <<>>, removed |-> 1, strippedSemantic |-> 0]
                 [] cmd.type \in {"update_object", "update_preview_object"}
                        /\ Has(cmd.patch) /\ Val(cmd.patch).semanticTag # Undef
                        /\ ~userExplicitlyWantsConvert(utterance) ->
                      [cmds |-> <<[cmd EXCEPT !.patch =
                                      Some([Val(@) EXCEPT !.semanticTag = Undef])]>>,
                       removed |-> 0, strippedSemantic |-> 1]
                 [] OTHER -> [cmds |-> <<cmd>>, removed |-> 0, strippedSemantic |-> 0]
         IN [cmds |-> one.cmds \o rest.cmds,
             removed |-> one.removed + rest.removed,
             strippedSemantic |-> one.strippedSemantic + rest.strippedSemantic]

stripDestructiveCommands(cmds, utterance) ==
    IF cmds = <<>> THEN [cmds |-> <<>>, removed |-> 0, strippedSemantic |-> 0]
    ELSE LET cmd == Head(cmds)
             rest == stripDestructiveCommands(Tail(cmds), utterance)
             inner == stripDestructiveCommands(Val(cmd.commands), utterance)
             one ==
               CASE cmd.type = "batch" /\ Has(cmd.commands) ->
                      [cmds |-> <<[cmd EXCEPT !.commands = Some(inner.cmds)]>>,
                       removed |-> inner.removed,
                       strippedSemantic |-> inner.strippedSemantic]
                 [] cmd.type = "delete_object" /\ ~userExplicitlyWantsDelete(utterance) ->
                      [cmds |-> <<>>, removed |-> 1, strippedSemantic |-> 0]
                 [] cmd.type = "cancel_preview_object"
                        /\ ~userExplicitlyWantsCancel(utterance) ->
                      [cmds |-> <<>>, removed |-> 1, strippedSemantic |-> 0]
                 [] cmd.type \in {"update_object", "update_preview_object"}
                        /\ Has(cmd.patch) /\ Val(cmd.patch).semanticTag # Undef
                        /\ ~userExplicitlyWantsConvert(utterance) ->
                      [cmds |-> <<[cmd EXCEPT !.patch =
                                      Some([Val(@) EXCEPT !.semanticTag = Undef])]>>,
                       removed |-> 0, strippedSemantic |-> 1]
                 [] OTHER -> [cmds |-> <<cmd>>, removed |-> 0, strippedSemantic |-> 0]
         IN [cmds |-> one.cmds \o rest.cmds,
             removed |-> one.removed + rest.removed,
             strippedSemantic |-> one.strippedSemantic + rest.strippedSemantic]

\* `(Safety: ${extra})`
SafetyNote(guard) ==
    <<"(Safety: ">>
    \o (IF guard.removed > 0
        THEN <<"ignored ", ToString(guard.removed), " destructive command(s)">> ELSE <<>>)
    \o (IF guard.removed > 0 /\ guard.strippedSemantic > 0 THEN <<"; ">> ELSE <<>>)
    \o (IF guard.strippedSemantic > 0
        THEN <<"ignored ", ToString(guard.strippedSemantic), " semanticTag change(s)">>
        ELSE <<>>)
    \o <<")">>

\* the guard's result discarded
UnguardedEnvelope(envelope, guard) == envelope

\* safeEnvelope = {...safeEnvelope, commands: guard.cmds} and
\* safeEnvelope.notes = (notes ? notes + " " : "") + `(Safety: ...)`
GuardedEnvelope(envelope, guard) ==
    [envelope EXCEPT
        !.commands = Some(guard.cmds),
        !.notes = IF guard.removed > 0 \/ guard.strippedSemantic > 0
                  THEN Some((IF Has(@) /\ Val(@) # <<>> THEN Val(@) \o <<" ">> ELSE <<>>)
                            \o SafetyNote(guard))
                  ELSE @]

(***************************************************************************)
(* commandDirector.ts: the stabilizer                                      *)
(***************************************************************************)
SetMin(S) == CHOOSE x \in S : \A y \in S : x <= y
SetMax(S) == CHOOSE x \in S : \A y \in S : x >= y

Box(minX, minY, maxX, maxY) ==
    [minX |-> minX, minY |-> minY, maxX |-> maxX, maxY |-> maxY]

shapeBBox(shape) ==
    CASE shape.type = "rect" ->
           Some(Box(shape.x, shape.y, shape.x + shape.width, shape.y + shape.height))
      [] shape.type = "circle" ->
           Some(Box(shape.x - shape.radius, shape.y - shape.radius,
                    shape.x + shape.radius, shape.y + shape.radius))
      [] shape.type = "ellipse" ->
           Some(Box(shape.x - shape.radiusX, shape.y - shape.radiusY,
                    shape.x + shape.radiusX, shape.y + shape.radiusY))
      [] shape.type \in {"polygon", "line"} ->
           LET n == Len(shape.points) \div 2
               xs == {shape.points[2 * i - 1] : i \in 1..n}
               ys == {shape.points[2 * i] : i \in 1..n}
           IN IF n = 0 THEN None
              ELSE Some(Box(SetMin(xs), SetMin(ys), SetMax(xs), SetMax(ys)))
      [] OTHER -> None

objectLocalBBox(obj) ==
    LET shapes == IF Has(obj.shapes) THEN Val(obj.shapes) ELSE <<>>
        boxes == {Val(shapeBBox(shapes[i])) :
                    i \in {j \in 1..Len(shapes) : Has(shapeBBox(shapes[j]))}}
    IN IF boxes = {} THEN None
       ELSE Some(Box(SetMin({b.minX : b \in boxes}), SetMin({b.minY : b \in boxes}),
                     SetMax({b.maxX : b \in boxes}), SetMax({b.maxY : b \in boxes})))

\* every shape moved by (-dx, -dy); bound(v) is what the caller does to a coordinate
MoveShapes(shapes, dx, dy, bound(_)) ==
    [i \in 1..Len(shapes) |->
        [shapes[i] EXCEPT
            !.x = IF IsNumber(@) THEN bound(@ - dx) ELSE @,
            !.y = IF IsNumber(@) THEN bound(@ - dy) ELSE @,
            !.points = [j \in 1..Len(@) |->
                           bound(@[j] - (IF j % 2 = 1 THEN dx ELSE dy))]]]

TransformOf(obj) == IF Has(obj.transform) THEN Val(obj.transform) ELSE NoFields

rebaseObjectToLocal(obj) ==
    IF ~Has(objectLocalBBox(obj)) THEN obj
    ELSE LET bb == Val(objectLocalBBox(obj))
             t == TransformOf(obj)
             tx == IF IsNumber(t.x) THEN t.x ELSE 0
             ty == IF IsNumber(t.y) THEN t.y ELSE 0
         IN IF ~(bb.minX > 12 \/ bb.minY > 12 \/ bb.maxX > 110 \/ bb.maxY > 110) THEN obj
            ELSE [obj EXCEPT
                    !.transform = Some([t EXCEPT !.x = clamp01to100(tx + bb.minX),
                                                 !.y = clamp01to100(ty + bb.minY)]),
                    !.shapes = Some(MoveShapes(Val(@), bb.minX, bb.minY,
                                               LAMBDA v : clamp01to100(v)))]

shiftLocalBBoxToZero(obj) ==
    IF ~Has(objectLocalBBox(obj)) THEN obj
    ELSE LET bb == Val(objectLocalBBox(obj))
             t == TransformOf(obj)
             tx == IF IsNumber(t.x) THEN t.x ELSE 0
             ty == IF IsNumber(t.y) THEN t.y ELSE 0
         IN IF bb.minX = 0 /\ bb.minY = 0 THEN obj
            ELSE [obj EXCEPT
                    !.transform = Some([t EXCEPT !.x = tx + bb.minX, !.y = ty + bb.minY]),
                    !.shapes = Some(MoveShapes(Val(@), bb.minX, bb.minY, LAMBDA v : v))]

looksLikeFullWidthBandRect(shape) ==
    shape.type = "rect" /\ shape.x <= 1 /\ shape.width >= 95 /\ shape.height > 0

\* the band rects, stably sorted by y
RECURSIVE SortByY(_)
SortByY(rects) ==
    IF rects = <<>> THEN <<>>
    ELSE LET r == Head(rects)
             rest == SortByY(Tail(rects))
         IN SelectSeq(rest, LAMBDA o : o.y < r.y) \o <<r>>
            \o SelectSeq(rest, LAMBDA o : o.y >= r.y)

getBandRects(shapes) == SortByY(SelectSeq(shapes, looksLikeFullWidthBandRect))

MinBandRects == 3

isBandStack(shapes) == Len(getBandRects(shapes)) >= MinBandRects

bandBoundsForLayer(layer) ==
    IF layer = "sky" THEN [minY |-> 0, maxY |-> HORIZON_Y]
    ELSE IF layer \in {"ground", "foreground"} THEN [minY |-> HORIZON_Y, maxY |-> 100]
    ELSE [minY |-> 0, maxY |-> 100]

\* a tiling that hands every band the rounded-down share and drops the rest
normalizeBandStackNoRemainder(shapes, targetHeight) ==
    LET rects == getBandRects(shapes)
        n == Len(rects)
    IN IF n < MinBandRects THEN None
       ELSE LET base == targetHeight \div n
                outRects == [i \in 1..n |->
                               [rects[i] EXCEPT !.x = 0, !.y = (i - 1) * base,
                                                !.width = 100, !.height = base]]
            IN Some(outRects
                    \o SelectSeq(shapes, LAMBDA s : ~looksLikeFullWidthBandRect(s)))

normalizeBandStack(shapes, targetHeight) ==
    LET rects == getBandRects(shapes)
        n == Len(rects)
    IN IF n < MinBandRects THEN None
       ELSE LET base == targetHeight \div n
                rem == targetHeight - base * n
                outRects == [i \in 1..n |->
                               [rects[i] EXCEPT
                                  !.x = 0,
                                  !.y = (i - 1) * base + Min2(i - 1, rem),
                                  !.width = 100,
                                  !.height = base + (IF i <= rem THEN 1 ELSE 0)]]
            IN Some(outRects
                    \o SelectSeq(shapes, LAMBDA s : ~looksLikeFullWidthBandRect(s)))

\* the tag test /\bground|field|grass|floor\b/i over the model's tags
GroundLikeTags == {"ground", "field", "grass", "floor", "paddy_field"}

UnitTransform == Transform(0, 0, DefaultScale, 0)

applyCoverageToObject(obj, mode, utterance) ==
    LET tag == IF obj.semanticTag \in {Undef, Null} THEN "" ELSE toLowerCase(obj.semanticTag)
        layer == IF obj.layer \in {Undef, Null} THEN "ground" ELSE obj.layer
        shapes == Val(obj.shapes)
        banded(h) == IF Has(normalizeBandStack(shapes, h))
                     THEN normalizeBandStack(shapes, h) ELSE obj.shapes
        targetHeight == bandBoundsForLayer(layer).maxY - bandBoundsForLayer(layer).minY
    IN IF mode = "full_canvas"
          /\ (layer = "sky" \/ tag = "sky" \/ HasPhrase(utterance, <<"sky">>)
                \/ HasPhrase(utterance, <<"background">>) \/ isBandStack(shapes))
       THEN [obj EXCEPT !.layer = "background", !.transform = Some(UnitTransform),
                        !.shapes = banded(100)]
       ELSE IF layer = "sky"
               /\ (tag = "sky" \/ HasPhrase(utterance, <<"sky">>) \/ isBandStack(shapes))
       THEN [obj EXCEPT
               !.transform = Some([TransformOf(obj) EXCEPT
                                     !.x = 0, !.y = 0, !.scale = DefaultScale,
                                     !.rotation = 0]),
               !.shapes = banded(targetHeight)]
       ELSE IF layer \in {"ground", "foreground"} /\ tag \in GroundLikeTags
       THEN [obj EXCEPT
               !.transform = Some([TransformOf(obj) EXCEPT
                                     !.x = 0, !.y = bandBoundsForLayer(layer).minY,
                                     !.scale = DefaultScale, !.rotation = 0]),
               !.shapes = banded(targetHeight)]
       ELSE obj

\* v * scale, scale being counted in tenths; exact for the scales of the model
Scaled(v, scale) == (v * scale) \div 10

BandMargin == 1

fitObjectToBands(obj, margin, mode) ==
    IF ~Has(objectLocalBBox(obj)) THEN obj
    ELSE LET bb == Val(objectLocalBBox(obj))
             t == TransformOf(obj)
             tx == IF IsNumber(t.x) THEN t.x ELSE LegacyX
             ty == IF IsNumber(t.y) THEN t.y ELSE LegacyY
             scale == IF IsNumber(t.scale) THEN t.scale ELSE DefaultScale
             layer == IF obj.layer \in {Undef, Null} THEN "ground" ELSE obj.layer
             band == IF mode # "full_canvas" THEN bandBoundsForLayer(layer)
                     ELSE [minY |-> 0, maxY |-> 100]
             minX == tx + Scaled(bb.minX, scale)
             maxX == tx + Scaled(bb.maxX, scale)
             minY == ty + Scaled(bb.minY, scale)
             maxY == ty + Scaled(bb.maxY, scale)
             dx == IF minX < margin THEN margin - minX
                   ELSE IF maxX > 100 - margin THEN 100 - margin - maxX ELSE 0
             dy == IF minY < band.minY + margin THEN band.minY + margin - minY
                   ELSE IF maxY > band.maxY - margin THEN band.maxY - margin - maxY ELSE 0
         IN IF dx = 0 /\ dy = 0 THEN obj
            ELSE [obj EXCEPT !.transform =
                     Some([t EXCEPT !.x = clamp01to100(tx + dx),
                                    !.y = clamp01to100(ty + dy)])]

stabilizeNewObject(obj, mode, utterance) ==
    LET t == TransformOf(obj)
        clamped == [obj EXCEPT !.transform = Some(Transform(
                        clamp01to100(IF IsNumber(t.x) THEN t.x ELSE LegacyX),
                        clamp01to100(IF IsNumber(t.y) THEN t.y ELSE LegacyY),
                        clamp(IF IsNumber(t.scale) THEN t.scale ELSE DefaultScale,
                              ScaleMin, ScaleMax),
                        clamp(IF IsNumber(t.rotation) THEN t.rotation ELSE 0,
                              RotationMin, RotationMax)))]
    IN fitObjectToBands(
           applyCoverageToObject(shiftLocalBBoxToZero(rebaseObjectToLocal(clamped)),
                                 mode, utterance),
           BandMargin, mode)

\* isSignificantShape: a rect always; otherwise by the size of its box
simplifyBackdrop(obj, utterance) ==
    LET tag == IF obj.semanticTag \in {Undef, Null} THEN "" ELSE toLowerCase(obj.semanticTag)
        shapes == Val(obj.shapes)
        significant(s) ==
            \/ s.type = "rect"
            \/ /\ Has(shapeBBox(s))
               /\ LET bb == Val(shapeBBox(s))
                      w == bb.maxX - bb.minX
                      h == bb.maxY - bb.minY
                  IN w >= 25 \/ h >= 15 \/ w * h >= 600
        kept == SelectSeq(shapes, significant)
    IN IF tag \notin {"sky", "field", "grass", "ground", "paddy_field", "water", "sand",
                      "backdrop", "background_backdrop", "paddy", "meadow", "lawn"}
          \/ wantsTexture(utterance)
       THEN obj
       ELSE IF kept = <<>> THEN obj
       ELSE [obj EXCEPT !.shapes = Some(kept)]

maybeNormalizeBandPatch(cmd, sceneSnapshot, mode, utterance) ==
    IF ~Has(sceneSnapshot) \/ Falsy(cmd.id) \/ ~Has(cmd.patch)
       \/ cmd.id \notin DOMAIN Val(sceneSnapshot).objects
    THEN cmd
    ELSE LET current == Val(sceneSnapshot).objects[cmd.id]
             patch == Val(cmd.patch)
             layer == IF current.layer \in {Undef, Null} THEN "ground" ELSE current.layer
             fullCanvas == mode = "full_canvas"
             targetHeight == IF fullCanvas THEN 100
                             ELSE bandBoundsForLayer(layer).maxY
                                  - bandBoundsForLayer(layer).minY
             currentShapes == IF Has(current.shapes) THEN Val(current.shapes) ELSE <<>>
             hasBandNow == isBandStack(currentShapes)
             hasBandPatch == Has(patch.shapes) /\ isBandStack(Val(patch.shapes))
             scaleIntent ==
                 \/ HasAny(utterance, {<<"scale">>, <<"bigger">>, <<"smaller">>,
                                       <<"expand">>, <<"stretch">>, <<"fill">>, <<"cover">>})
                 \/ (Has(patch.transform) /\ Val(patch.transform).scale # Missing)
             isSky == ~Falsy(current.semanticTag)
                      /\ current.semanticTag # TagNonString
                      /\ toLowerCase(current.semanticTag) = "sky"
             wantsSkyOrBg ==
                 \/ HasPhrase(utterance, <<"sky">>) \/ HasPhrase(utterance, <<"background">>)
                 \/ isSky \/ layer = "sky"
             normalized == normalizeBandStack(
                               IF hasBandPatch THEN Val(patch.shapes) ELSE currentShapes,
                               targetHeight)
             mergedT == SpreadTransform(
                            IF Has(current.transform) THEN current.transform
                            ELSE Some(UnitTransform),
                            patch.transform)
             forceFull == fullCanvas
                          /\ (layer = "sky" \/ isSky \/ HasPhrase(utterance, <<"background">>))
             nextTransform ==
                 IF forceFull \/ layer = "sky" THEN UnitTransform
                 ELSE [mergedT EXCEPT !.x = IF IsNumber(@) THEN clamp01to100(@) ELSE @,
                                      !.y = IF IsNumber(@) THEN clamp01to100(@) ELSE @]
         IN IF ~hasBandNow /\ ~hasBandPatch THEN cmd
            ELSE IF ~scaleIntent /\ ~wantsSkyOrBg /\ ~fullCanvas
            THEN IF hasBandPatch
                 THEN [cmd EXCEPT !.patch = Some([patch EXCEPT !.shapes = normalized])]
                 ELSE cmd
            ELSE IF ~Has(normalized) THEN cmd
            ELSE [cmd EXCEPT !.patch =
                     Some([patch EXCEPT !.transform = Some(nextTransform),
                                        !.shapes = normalized])]

\* boostVisibility changes path shapes and filterIndicatorShapes objects tagged
\* person or people; no reply of the specifications holds either
RECURSIVE postProcessCommand(_, _, _, _)
postProcessCommand(cmd, utterance, sceneSnapshot, mode) ==
    CASE cmd.type \in {"add_preview_object", "add_object"} /\ Has(cmd.object) ->
           [cmd EXCEPT !.object =
               Some(stabilizeNewObject(simplifyBackdrop(Val(@), utterance),
                                       mode, utterance))]
      [] cmd.type \in {"update_preview_object", "update_object"} /\ Has(cmd.patch) ->
           LET out == maybeNormalizeBandPatch(cmd, sceneSnapshot, mode, utterance)
               patch == Val(out.patch)
           IN IF ~Has(patch.transform) THEN out
              ELSE [out EXCEPT !.patch = Some([patch EXCEPT !.transform = Some(
                       [Val(@) EXCEPT
                          !.x = IF IsNumber(@) THEN clamp01to100(@) ELSE @,
                          !.y = IF IsNumber(@) THEN clamp01to100(@) ELSE @,
                          !.scale = IF IsNumber(@) THEN clamp(@, ScaleMin, ScaleMax) ELSE @,
                          !.rotation = IF IsNumber(@)
                                       THEN clamp(@, RotationMin, RotationMax) ELSE @])])]
      [] cmd.type = "batch" /\ Has(cmd.commands) ->
           [cmd EXCEPT !.commands =
               Some([i \in 1..Len(Val(@)) |->
                       postProcessCommand(Val(@)[i], utterance, sceneSnapshot, mode)])]
      [] OTHER -> cmd

postProcessEnvelope(envelope, utterance, sceneSnapshot, mode) ==
    [envelope EXCEPT !.commands =
        Some([i \in 1..Len(Val(@)) |->
                postProcessCommand(Val(@)[i], utterance, sceneSnapshot, mode)])]

(***************************************************************************)
(* server/gemini/realismPass.ts                                            *)
(***************************************************************************)
MIN_SHAPES_BY_TAG ==
    [tree |-> 2, house |-> 3, person |-> 4, car |-> 3, flower |-> 2, bush |-> 2,
     mountain |-> 1, sun |-> 1, cloud |-> 1, bird |-> 2, default |-> 1]

needsEnrichment(obj, utterance) ==
    LET tag == IF Falsy(obj.semanticTag) THEN "" ELSE toLowerCase(obj.semanticTag)
        minShapes == IF tag \in DOMAIN MIN_SHAPES_BY_TAG THEN MIN_SHAPES_BY_TAG[tag]
                     ELSE MIN_SHAPES_BY_TAG["default"]
    IN IF HasAny(utterance, {<<"simple">>, <<"minimal">>, <<"basic">>}) THEN FALSE
       ELSE \/ Len(Val(obj.shapes)) < minShapes
            \/ HasAny(utterance, {<<"proper">>, <<"realistic">>, <<"actual", "shape">>})

BackdropRect(id, b) == Rect(id, b.x1, b.y1, b.x2 - b.x1, b.y2 - b.y1)

getMacroShapes(tag, utterance) ==
    LET lower == toLowerCase(tag)
        fullCanvas == hasFullCanvasIntent(utterance)
    IN CASE lower = "tree" ->
              <<Rect("trunk_1", 0 - 3, 0, 6, 20), Ellipse("canopy_1", 0, 0 - 8, 12, 10),
                Ellipse("canopy_2", 0 - 6, 0 - 4, 8, 7), Ellipse("canopy_3", 6, 0 - 4, 8, 7),
                Ellipse("highlight_1", 0 - 3, 0 - 10, 4, 3)>>
         [] lower = "house" ->
              <<Rect("base_1", 0 - 15, 0, 30, 25),
                Polygon("roof_1", <<0 - 18, 0, 18, 0, 0, 0 - 15>>),
                Rect("door_1", 0 - 4, 10, 8, 15), Rect("window_1", 0 - 12, 5, 6, 6),
                Rect("window_2", 6, 5, 6, 6), Rect("chimney_1", 8, 0 - 12, 5, 10)>>
         [] lower = "person" ->
              <<Circle("head_1", 0, 0 - 18, 4), Rect("body_1", 0 - 4, 0 - 14, 8, 14),
                Rect("arm_l_1", 0 - 7, 0 - 12, 3, 10), Rect("arm_r_1", 4, 0 - 12, 3, 10),
                Rect("leg_l_1", 0 - 3, 0, 3, 12), Rect("leg_r_1", 0, 0, 3, 12)>>
         [] lower = "car" ->
              <<Rect("body_1", 0 - 18, 0 - 6, 36, 10),
                Polygon("cabin_1", <<0 - 10, 0 - 6, 10, 0 - 6, 6, 0 - 14, 0 - 6, 0 - 14>>),
                Circle("wheel_f_1", 0 - 10, 4, 4), Circle("wheel_b_1", 10, 4, 4),
                Circle("hubcap_f_1", 0 - 10, 4, 2), Circle("hubcap_b_1", 10, 4, 2)>>
         [] lower = "flower" ->
              <<Rect("stem_1", 0 - 1, 0, 2, 10), Circle("center_1", 0, 0 - 2, 3),
                Ellipse("petal_1", 0, 0 - 6, 2, 3), Ellipse("petal_2", 4, 0 - 2, 3, 2),
                Ellipse("petal_3", 0 - 4, 0 - 2, 3, 2), Ellipse("petal_4", 3, 1, 2, 3),
                Ellipse("petal_5", 0 - 3, 1, 2, 3)>>
         [] lower = "mountain" ->
              <<Polygon("main_1", <<0 - 25, 20, 25, 20, 0, 0 - 20>>),
                Polygon("snow_1", <<0 - 8, 0 - 8, 8, 0 - 8, 0, 0 - 20>>),
                Polygon("shadow_1", <<0, 0 - 20, 15, 5, 25, 20, 0, 20>>)>>
         [] lower = "cloud" ->
              <<Ellipse("puff_1", 0, 0, 12, 6), Ellipse("puff_2", 0 - 8, 2, 8, 5),
                Ellipse("puff_3", 8, 2, 8, 5), Ellipse("puff_4", 0, 0 - 3, 8, 4)>>
         [] lower = "bird" ->
              <<Ellipse("body_1", 0, 0, 3, 2), Path("wing_l_1", "M-2,-1 Q-6,-4 -8,0"),
                Path("wing_r_1", "M2,-1 Q6,-4 8,0")>>
         [] lower = "bush" ->
              <<Ellipse("base_1", 0, 0, 10, 6), Ellipse("top_1", 0, 0 - 4, 8, 5),
                Ellipse("highlight_1", 0 - 3, 0 - 5, 3, 2)>>
         [] lower = "sun" ->
              <<Circle("glow_1", 0, 0, 10), Circle("core_1", 0, 0, 6)>>
         [] lower = "sky" ->
              <<BackdropRect("sky_bg_1", getDefaultBounds("sky", fullCanvas))>>
         [] lower \in {"grass", "field", "ground"} ->
              <<BackdropRect("grass_bg_1", getDefaultBounds("grass", fullCanvas))>>
         [] OTHER ->
              <<Polygon("body_1", <<0 - 8, 10, 8, 10, 10, 0 - 5, 0, 0 - 15, 0 - 10, 0 - 5>>),
                Circle("detail_1", 0, 0 - 8, 3), Rect("base_1", 0 - 6, 8, 12, 4)>>

\* an enrichment that adds the macro shapes to the shapes the object has
enrichObjectAppends(obj, utterance) ==
    [obj EXCEPT !.shapes =
        Some(Val(@) \o getMacroShapes(IF Falsy(obj.semanticTag) THEN "object"
                                       ELSE obj.semanticTag,
                                       utterance))]

enrichObject(obj, utterance) ==
    [obj EXCEPT !.shapes =
        Some(getMacroShapes(IF Falsy(obj.semanticTag) THEN "object" ELSE obj.semanticTag,
                            utterance))]

processBackdrop(obj, utterance) ==
    IF ~isBackdrop(obj.semanticTag) THEN obj
    ELSE LET bounds == getDefaultBounds(obj.semanticTag, hasFullCanvasIntent(utterance))
         IN [obj EXCEPT
               !.shapes = Some([i \in 1..Len(Val(@)) |->
                                  IF Val(@)[i].type = "rect"
                                  THEN [Val(@)[i] EXCEPT
                                          !.x = bounds.x1, !.y = bounds.y1,
                                          !.width = bounds.x2 - bounds.x1,
                                          !.height = bounds.y2 - bounds.y1]
                                  ELSE Val(@)[i]]),
               !.transform = Some(UnitTransform)]

\* only the top-level add commands of the envelope
applyRealismPass(envelope, utterance) ==
    [envelope EXCEPT !.commands =
        Some([i \in 1..Len(Val(@)) |->
                LET cmd == Val(@)[i] IN
                IF cmd.type \notin {"add_preview_object", "add_object"} THEN cmd
                ELSE LET obj == processBackdrop(Val(cmd.object), utterance)
                     IN [cmd EXCEPT !.object =
                            Some(IF needsEnrichment(obj, utterance)
                                 THEN enrichObject(obj, utterance) ELSE obj)]])]

(***************************************************************************)
(* commandDirector.ts: generateCommandEnvelope                             *)
(***************************************************************************)
\* JSON.stringify(canonical.sceneGraph) read back by JSON.parse: the summary is
\* the scene's own value (no key of a stored scene holds undefined, NaN or a
\* function, the values JSON loses), and its objects and order are truthy
tryParseSceneGraph(sceneSummary) == Some(sceneSummary)

DirectorResult(envelope, validated, refusal) ==
    [envelope |-> envelope, validated |-> validated, refusal |-> refusal]

Refused(reason, notes, refusal) ==
    DirectorResult(createRefusedEnvelope(reason, notes), FALSE, Some(refusal))

\* the catch branch: refusal.reason is the error's message
ErrorMessage == "error_message"

\* normalizedCandidate: the candidate with its command array normalized
normalizedCandidate(envelopeCandidate) ==
    IF envelopeCandidate.json = "envelope" /\ Has(envelopeCandidate.env.commands)
    THEN [envelopeCandidate EXCEPT !.env.commands = Some(normalizeCommandArray(Val(@)))]
    ELSE envelopeCandidate

\* the validated envelope through the guard, the stabilizer and the realism pass
enhanced(safeEnvelope, utterance, sceneSummary) ==
    applyRealismPass(
        postProcessEnvelope(
            GuardedEnvelope(safeEnvelope,
                            stripDestructiveCommands(Val(safeEnvelope.commands), utterance)),
            utterance, tryParseSceneGraph(sceneSummary),
            coverageModeFromUtterance(utterance)),
        utterance)

\* the result built from recheck.data
finalResult(finalEnvelope) ==
    IF finalEnvelope.refused = Some(TRUE)
    THEN DirectorResult(finalEnvelope, TRUE,
                        Some(IF Falsy(finalEnvelope.refusalReason)
                             THEN "unspecified" ELSE finalEnvelope.refusalReason))
    ELSE DirectorResult(finalEnvelope, TRUE, None)

\* CommandEnvelopeSchema.safeParse(enhanced) and what follows it
recheck(candidate) ==
    IF ~ValidEnvelope(candidate)
    THEN Refused("schema_validation_failed", "Normalization failed.",
                 "schema_validation_failed")
    ELSE finalResult(ParsedEnvelope(candidate))

\* CommandEnvelopeSchema.safeParse(normalizedCandidate) and what follows it
validation(candidate, utterance, sceneSummary) ==
    IF ~ValidEnvelope(candidate)
    THEN Refused("schema_validation_failed",
                 "I couldn't produce a valid command envelope.",
                 "schema_validation_failed")
    ELSE recheck(Candidate("envelope",
                           enhanced(ParsedEnvelope(candidate), utterance, sceneSummary),
                           BlankCmd))

\* reply is what the model call produced: an error, text that is no JSON, or
\* the value JSON.parse returned.  An exception thrown anywhere inside the try
\* block ends in the catch branch, which answers api_error.
generateCommandEnvelope(utterance, sceneSummary, reply) ==
    CASE reply.json = "rate_limited" ->
           Refused("rate_limited", "Rate limit hit. Try again shortly.", "rate_limited")
      [] reply.json = "api_error" ->
           Refused("api_error", "There was an error processing your request.",
                   ErrorMessage)
      [] reply.json = "unparseable" ->
           Refused("json_parse_failed", "I couldn't understand the response.",
                   "json_parse_failed")
      [] /\ normalizeToEnvelope(reply).json = "envelope"
         /\ Has(normalizeToEnvelope(reply).env.commands)
         /\ normalizeCommandArrayThrows(Val(normalizeToEnvelope(reply).env.commands)) ->
           Refused("api_error", "There was an error processing your request.",
                   ErrorMessage)
      [] OTHER ->
           validation(normalizedCandidate(normalizeToEnvelope(reply)),
                      utterance, sceneSummary)

(***************************************************************************)
(* server/routes.ts: the canonical state and the request handlers          *)
(***************************************************************************)
InitCanonical ==
    [sceneGraph |-> createEmptyScene, sessionEvents |-> <<>>,
     activePreviewIds |-> {}, revision |-> 0, lastTouchedObjectId |-> Null]

\* a listing that does not look at the status
getActivePreviewIdsAnyStatus(sceneGraph) == DOMAIN sceneGraph.objects

getActivePreviewIds(sceneGraph) ==
    {id \in DOMAIN sceneGraph.objects : sceneGraph.objects[id].status = "preview"}

RECURSIVE inferLastTouched(_)
inferLastTouched(commands) ==
    IF commands = <<>> THEN Null
    ELSE LET cmd == commands[Len(commands)]
             earlier == inferLastTouched(SubSeq(commands, 1, Len(commands) - 1))
             mine ==
               CASE cmd.type \in {"add_preview_object", "add_object"} ->
                      IF Has(cmd.object) /\ ~Falsy(Val(cmd.object).id)
                      THEN Val(cmd.object).id ELSE Null
                 [] cmd.type \in {"update_preview_object", "commit_preview_object",
                                  "cancel_preview_object", "update_object",
                                  "delete_object"} ->
                      IF cmd.objectId # Undef THEN cmd.objectId
                      ELSE IF cmd.id # Undef THEN cmd.id ELSE Null
                 [] cmd.type = "batch" /\ Has(cmd.commands) ->
                      inferLastTouched(Val(cmd.commands))
                 [] OTHER -> Null
         IN IF mine # Null THEN mine ELSE earlier

EventWindow == 99

\* an append that trims nothing
AppendEventUntrimmed(events, event) == events \o <<event>>

\* [...canonical.sessionEvents.slice(-99), event]; an event's id, timestamp and
\* latency are not modelled
AppendEvent(events, event) ==
    (IF Len(events) > EventWindow
     THEN SubSeq(events, Len(events) - EventWindow + 1, Len(events))
     ELSE events) \o <<event>>

SessionEvent(utterance, commands, status, notes) ==
    [utterance |-> utterance, commands |-> commands, status |-> status, notes |-> notes]

\* a refusal that is logged and leaves the revision as it was
RejectedSameRevision(c, utterance, reason) ==
    [c EXCEPT !.sessionEvents =
                  AppendEvent(@, SessionEvent(utterance, <<>>, "rejected", reason))]

\* the refusal branch of handleSubmitUtterance
Rejected(c, utterance, reason) ==
    [c EXCEPT !.sessionEvents =
                  AppendEvent(@, SessionEvent(utterance, <<>>, "rejected", reason)),
              !.revision = @ + 1]

\* what both handlers do with an envelope they apply; nextScene is
\* applyCommands(canonical.sceneGraph, commands)
Applied(c, utterance, commands, nextScene) ==
    [c EXCEPT !.sceneGraph = nextScene,
              !.lastTouchedObjectId =
                  IF inferLastTouched(commands) # Null
                  THEN inferLastTouched(commands) ELSE @,
              !.activePreviewIds = getActivePreviewIds(nextScene),
              !.sessionEvents =
                  AppendEvent(@, SessionEvent(utterance, commands, "applied", Undef)),
              !.revision = @ + 1]

ManualLabel == <<"[manual console]">>

NoReply == Candidate("none", NoEnvelope, BlankCmd)

\* what a handler that ran to its end did: the request it served, the envelope
\* it broadcast and the scene it found
Done(op, seq, utterance, reply, envelope, before, threw) ==
    [op |-> op, seq |-> seq, utterance |-> utterance, reply |-> reply,
     envelope |-> envelope, before |-> before, threw |-> threw]

NoGuard == [phase |-> "idle", utterance |-> <<>>, cmds |-> <<>>,
            out |-> [cmds |-> <<>>, removed |-> 0, strippedSemantic |-> 0]]

\* no run of applyCommands under way
NoReplay ==
    [phase |-> "idle", start |-> createEmptyScene, first |-> <<>>, second |-> <<>>,
     mid |-> Ok(createEmptyScene), stepwise |-> Ok(createEmptyScene),
     whole |-> Ok(createEmptyScene), again |-> Ok(createEmptyScene),
     flat |-> Ok(createEmptyScene)]

\* no function applied
NoCall == [phase |-> "idle", fn |-> "none", arg |-> <<>>, out |-> <<>>, again |-> <<>>]

\* a message of the server to its clients; only a scene_update carries a scene
\* graph, the ids of the previews and a revision
Message(type, sceneGraph, activePreviewIds, revision) ==
    [type |-> type, sceneGraph |-> sceneGraph, activePreviewIds |-> activePreviewIds,
     revision |-> revision]

Plain(type) == Message(type, createEmptyScene, {}, 0 - 1)

\* nothing broadcast yet; prev is the revision of the scene_update before the
\* last handler's
NoWire == [sent |-> <<>>, prev |-> 0 - 1]

SceneUpdates(sent) == SelectSeq(sent, LAMBDA m : m.type = "scene_update")

\* the revision of the last scene_update broadcast so far
LastUpdate(w) ==
    IF SceneUpdates(w.sent) = <<>> THEN w.prev
    ELSE SceneUpdates(w.sent)[Len(SceneUpdates(w.sent))].revision

\* broadcast(message) for each message of sent, in this order
broadcast(w, sent) == [sent |-> sent, prev |-> LastUpdate(w)]

\* a scene_update that carries the revision before the last increment
sendSceneUpdateStale(c) ==
    Message("scene_update", c.sceneGraph, c.activePreviewIds, c.revision - 1)

\* the message sendSceneUpdate() builds from the canonical state c
sendSceneUpdate(c) ==
    Message("scene_update", c.sceneGraph, c.activePreviewIds, c.revision)

(***************************************************************************)
(* client/src/state/reducer.ts: the reducer the history store folds with   *)
(***************************************************************************)
\* patch[name] of a transform patch; Missing when the key is absent
Field(patch, name) == IF name \in DOMAIN patch THEN patch[name] ELSE Missing

\* the first of the spellings of a delta that holds a number
RECURSIVE FirstNumber(_, _)
FirstNumber(patch, names) ==
    IF names = <<>> THEN Missing
    ELSE IF IsNumber(Field(patch, Head(names))) THEN Field(patch, Head(names))
    ELSE FirstNumber(patch, Tail(names))

\* Math.max(lo, Math.min(hi, n)); an absent n gives NaN
clampNumber(n, lo, hi) == IF IsNumber(n) /\ n # NaN THEN clamp(n, lo, hi) ELSE NaN

\* one field of applyTransformPatch: the absolute value wins over the delta
PatchedField(existing, patch, name, deltas) ==
    IF IsNumber(Field(patch, name)) THEN Field(patch, name)
    ELSE IF IsNumber(FirstNumber(patch, deltas))
    THEN IF IsNumber(existing[name]) /\ existing[name] # NaN
         THEN existing[name] + FirstNumber(patch, deltas) ELSE NaN
    ELSE existing[name]

\* existing is a maybe, as the transform of an object is
applyTransformPatch(existing, patch) ==
    LET e == IF Has(existing) THEN Val(existing) ELSE NoFields IN
    Some(Transform(
        clampNumber(PatchedField(e, patch, "x", <<"dx", "xDelta", "deltaX">>),
                    CoordMin, CoordMax),
        clampNumber(PatchedField(e, patch, "y", <<"dy", "yDelta", "deltaY">>),
                    CoordMin, CoordMax),
        clampNumber(PatchedField(e, patch, "scale", <<"dScale", "scaleDelta">>),
                    ScaleMin, ScaleMax),
        clampNumber(PatchedField(e, patch, "rotation", <<"dRotation", "rotationDelta">>),
                    RotationMin, RotationMax)))

RECURSIVE clientApplyCommand(_, _)
RECURSIVE clientApplyCommands(_, _)

clientApplyCommand(sc, command) ==
    CASE command.type = "set_scene_intent" -> [sc EXCEPT !.intent = command.intent]
      [] command.type \in {"add_preview_object", "add_object"} ->
            IF Truthy(sc.objects, Val(command.object).id) THEN sc
            ELSE [sc EXCEPT !.objects = Put(@, Val(command.object).id, Val(command.object)),
                            !.order = Append(@, Val(command.object).id)]
      [] command.type \in {"update_preview_object", "update_object"} ->
            IF ~Truthy(sc.objects, command.id) THEN sc
            ELSE LET existing == Get(sc.objects, command.id)
                     patch == Val(command.patch)
                     updated ==
                        [existing EXCEPT
                            !.layer = IF patch.layer # Undef THEN patch.layer ELSE @,
                            !.status = IF patch.status # Undef THEN patch.status ELSE @,
                            !.semanticTag =
                                IF patch.semanticTag # Undef THEN patch.semanticTag ELSE @,
                            !.transform =
                                IF Has(patch.transform)
                                THEN applyTransformPatch(@, Val(patch.transform)) ELSE @,
                            !.shapes = IF Has(patch.shapes) THEN patch.shapes ELSE @]
                 IN [sc EXCEPT !.objects = Put(@, command.id, updated)]
      [] command.type = "commit_preview_object" ->
            IF ~Truthy(sc.objects, command.id)
               \/ Get(sc.objects, command.id).status # "preview"
            THEN sc
            ELSE [sc EXCEPT !.objects =
                    Put(@, command.id,
                        [Get(sc.objects, command.id) EXCEPT !.status = "committed"])]
      [] command.type \in {"cancel_preview_object", "delete_object"} ->
            IF ~Truthy(sc.objects, command.id) THEN sc
            ELSE [sc EXCEPT !.objects = Remove(@, command.id),
                            !.order = Filter(@, command.id)]
      [] command.type = "batch" -> clientApplyCommands(sc, Val(command.commands))
      [] OTHER -> sc

clientApplyCommands(sc, commands) ==
    IF commands = <<>> THEN sc
    ELSE clientApplyCommands(clientApplyCommand(sc, Head(commands)), Tail(commands))

(***************************************************************************)
(* client/src/state/historyStore.ts                                        *)
(***************************************************************************)
HistoryState(baseScene, sc, events, redoStack, lastApplyMs) ==
    [baseScene |-> baseScene, scene |-> sc, events |-> events,
     redoStack |-> redoStack, lastApplyMs |-> lastApplyMs]

\* the text handed to applyEvent: parses says whether JSON.parse returns,
\* value is what it returns
JsonString(parses, value) == [parses |-> parses, value |-> value]

\* createEvent(utterance, commands, status, { latencyMs })
createEvent(utterance, commands, status) ==
    SessionEvent(utterance, commands, status, Undef)

RECURSIVE rebuildScene(_, _)
rebuildScene(st, events) ==
    IF events = <<>> THEN st.baseScene
    ELSE LET result == rebuildScene(st, SubSeq(events, 1, Len(events) - 1))
             event == events[Len(events)]
         IN IF event.status = "applied"
            THEN clientApplyCommands(result, event.commands) ELSE result

\* what a method of the store returns, and the state it leaves
Returned(ok, st) == [ok |-> ok, state |-> st]

\* ms is Math.round(performance.now() - startTime)
applyEvent(st, utterance, jsonString, ms) ==
    IF ~jsonString.parses THEN Returned(FALSE, st)
    ELSE IF ~ValidEnvelope(jsonString.value) THEN Returned(FALSE, st)
    ELSE LET envelope == ParsedEnvelope(jsonString.value)
             event == createEvent(utterance, Val(envelope.commands), "applied")
             newEvents == Append(st.events, event)
         IN Returned(TRUE, [st EXCEPT !.events = newEvents,
                                      !.scene = rebuildScene(st, newEvents),
                                      !.redoStack = <<>>,
                                      !.lastApplyMs = ms])

\* an undo that leaves the scene as it is
undoKeepsScene(st) ==
    IF Len(st.events) = 0 THEN Returned(FALSE, st)
    ELSE Returned(TRUE, [st EXCEPT
            !.events = SubSeq(@, 1, Len(@) - 1),
            !.redoStack = Append(@, st.events[Len(st.events)])])

undo(st) ==
    IF Len(st.events) = 0 THEN Returned(FALSE, st)
    ELSE LET lastEvent == st.events[Len(st.events)]
             newEvents == SubSeq(st.events, 1, Len(st.events) - 1)
         IN Returned(TRUE, [st EXCEPT !.events = newEvents,
                                      !.redoStack = Append(@, lastEvent),
                                      !.scene = rebuildScene(st, newEvents)])

\* a redo that leaves the event on the redo stack
redoKeepsStack(st) ==
    IF Len(st.redoStack) = 0 THEN Returned(FALSE, st)
    ELSE LET newEvents == Append(st.events, st.redoStack[Len(st.redoStack)])
         IN Returned(TRUE, [st EXCEPT !.events = newEvents,
                                      !.scene = rebuildScene(st, newEvents)])

redo(st) ==
    IF Len(st.redoStack) = 0 THEN Returned(FALSE, st)
    ELSE LET event == st.redoStack[Len(st.redoStack)]
             newEvents == Append(st.events, event)
         IN Returned(TRUE, [st EXCEPT !.redoStack = SubSeq(@, 1, Len(@) - 1),
                                      !.events = newEvents,
                                      !.scene = rebuildScene(st, newEvents)])

clear(st) ==
    Returned(TRUE, [st EXCEPT !.scene = st.baseScene, !.events = <<>>,
                              !.redoStack = <<>>, !.lastApplyMs = 0])

reset(st) ==
    Returned(TRUE, HistoryState(createEmptyScene, createEmptyScene, <<>>, <<>>, 0))

\* the call of the store that ran last: its name, the state it found and
\* what it returned
HistoryOp(op, before, ok) == [op |-> op, before |-> before, ok |-> ok]

InitialState == HistoryState(createEmptyScene, createEmptyScene, <<>>, <<>>, 0)

StoreIdle ==
    /\ state = InitialState
    /\ historyOp = HistoryOp("init", InitialState, TRUE)

storeVars == <<state, historyOp>>

ReducerIdle ==
    /\ scene = createEmptyScene
    /\ last = [kind |-> "init", id |-> Undef, threw |-> FALSE, changed |-> FALSE]

ServerIdle ==
    /\ canonical = InitCanonical
    /\ inflight = {}
    /\ received = 0
    /\ applied = <<>>
    /\ done = Done("init", 0, <<>>, NoReply, NoEnvelope, createEmptyScene, FALSE)

reducerVars == <<scene, last>>
serverVars == <<canonical, inflight, received, applied, done>>

(***************************************************************************)
(* Spec: the reducer folding validator-accepted commands, one top-level    *)
(* command per step (applyCommands is the fold of these steps)             *)
(***************************************************************************)
Init == ReducerIdle /\ ServerIdle /\ StoreIdle /\ guardRun = NoGuard /\ replay = NoReplay /\ call = NoCall /\ wire = NoWire

TargetId(c) ==
    IF c.type \in AddTypes THEN Val(c.object).id ELSE c.id

Kind(c) ==
    CASE c.type \in AddTypes -> "add"
      [] c.type \in UpdateTypes -> "update"
      [] c.type = "commit_preview_object" -> "commit"
      [] c.type \in DeleteTypes -> "delete"
      [] OTHER -> "other"

Reduced(c) ==
    LET r == applyCommand(scene, c) IN IF r.threw THEN scene ELSE r.scene

Outcome(c) ==
    LET r == applyCommand(scene, c) IN
    [kind |-> Kind(c), id |-> TargetId(c), threw |-> r.threw,
     changed |-> (~r.threw /\ r.scene # scene)]

AddObject ==
    \E c \in AddInputs :
        scene' = Reduced(c) /\ last' = Outcome(c) /\ UNCHANGED <<serverVars, guardRun, storeVars, replay, call, wire>>

UpdateObject ==
    \E c \in UpdateInputs :
        scene' = Reduced(c) /\ last' = Outcome(c) /\ UNCHANGED <<serverVars, guardRun, storeVars, replay, call, wire>>

CommitPreviewObject ==
    \E c \in CommitInputs :
        scene' = Reduced(c) /\ last' = Outcome(c) /\ UNCHANGED <<serverVars, guardRun, storeVars, replay, call, wire>>

DeleteObject ==
    \E c \in DeleteInputs :
        scene' = Reduced(c) /\ last' = Outcome(c) /\ UNCHANGED <<serverVars, guardRun, storeVars, replay, call, wire>>

SetSceneIntent ==
    \E c \in IntentInputs :
        scene' = Reduced(c) /\ last' = Outcome(c) /\ UNCHANGED <<serverVars, guardRun, storeVars, replay, call, wire>>

SetGroundFill ==
    \E c \in FillInputs :
        scene' = Reduced(c) /\ last' = Outcome(c) /\ UNCHANGED <<serverVars, guardRun, storeVars, replay, call, wire>>

Batch ==
    \E c \in BatchInputs :
        scene' = Reduced(c) /\ last' = Outcome(c) /\ UNCHANGED <<serverVars, guardRun, storeVars, replay, call, wire>>

Next ==
    \/ AddObject
    \/ UpdateObject
    \/ CommitPreviewObject
    \/ DeleteObject
    \/ SetSceneIntent
    \/ SetGroundFill
    \/ Batch

Spec == Init /\ [][Next]_vars

(***************************************************************************)
(* SpecServer: the server handling submit_utterance, apply_command_envelope*)
(* and reset_scene messages.  handleSubmitUtterance runs up to its await   *)
(* when the message arrives and from the await on when the model answers.  *)
(***************************************************************************)
MaxRequests == 2

Utterances ==
    {<<"add", "a", "tree">>, <<"get", "rid", "of", "it">>,
     <<"make", "it", "into", "a", "bush">>}

TreeObject(status) ==
    SceneObject("tree-1", status, "ground", Some(Transform(50, 70, 10, 0)), "tree",
                Some(<<Rect("trunk", 0, 0, 6, 20), Circle("crown", 3, 0, 8)>>))

SkyObject ==
    SceneObject("sky-1", "preview", "sky", Some(Transform(0, 0, 10, 0)), "sky",
                Some(<<Rect("band", 0, 0, 100, 45)>>))

\* a bush under the tree's id
BushObject ==
    SceneObject("tree-1", "committed", "ground", Some(Transform(50, 70, 10, 0)), "bush",
                Some(<<Circle("leaf", 0, 0, 5), Circle("leaf-2", 4, 0, 5)>>))

TagPatch == Patch(Undef, Undef, None, "bush", None)
LayerPatch == Patch("foreground", Undef, None, Undef, None)

\* an update whose tag is a stray top-level key, next to a patch
StrayTagUpdate ==
    [UpdateCmd("update_object", "tree-1", LayerPatch) EXCEPT !.semanticTag = "bush"]

\* an update that carries an `object` wrapper instead of a patch
WrappedTagUpdate ==
    [IdCmd("update_object", "tree-1") EXCEPT
        !.object = Some([EmptyObject EXCEPT !.semanticTag = "bush"])]

\* a legacy add: command_type and object_id, the object's fields at top level
LegacyAdd ==
    [BlankCmd EXCEPT !.command_type = "add_object", !.object_id = "bush-1",
                     !.object_type = "bush",
                     !.shapes = Some(<<Circle("leaf", 20, 20, 5)>>)]

Commands(cmds) == Candidate("envelope", Envelope(Some(cmds), None, None, Undef), BlankCmd)

Replies ==
    {Commands(<<IdCmd("delete_object", "tree-1")>>),
     Commands(<<BatchCmd(<<IdCmd("cancel_preview_object", "tree-1"),
                          BatchCmd(<<IdCmd("delete_object", "tree-1")>>)>>)>>),
     Commands(<<UpdateCmd("update_object", "tree-1", TagPatch)>>),
     Commands(<<StrayTagUpdate>>),
     Commands(<<BatchCmd(<<WrappedTagUpdate,
                          UpdateCmd("update_preview_object", "tree-1", TagPatch)>>)>>),
     Commands(<<AddCmd("add_preview_object", SkyObject)>>),
     Commands(<<IdCmd("delete_object", "tree-1"), AddCmd("add_object", BushObject)>>),
     Candidate("envelope",
               Envelope(Some(<<AddCmd("add_preview_object", SkyObject)>>),
                        Some(<<"unsure which one">>), Some(TRUE), "ambiguous_target"),
               BlankCmd),
     Candidate("wrapped",
               Envelope(None, Some(<<"nothing to do">>), None, Undef), BlankCmd),
     Commands(<<LegacyAdd>>),
     Candidate("command", NoEnvelope, IdCmd("update_object", "tree-1")),
     Candidate("unparseable", NoEnvelope, BlankCmd)}

\* an envelope whose second command makes the reducer throw: the tag it
\* patches in is no string
ThrowsMidway ==
    Envelope(Some(<<AddCmd("add_preview_object", SkyObject),
                    UpdateCmd("update_preview_object", "sky-1",
                              Patch(Undef, Undef, None, TagNonString, None))>>),
             None, None, Undef)

ManualEnvelopes ==
    {Envelope(Some(<<AddCmd("add_object", TreeObject("committed"))>>), None, None, Undef),
     Envelope(Some(<<AddCmd("add_preview_object", TreeObject("preview"))>>),
              None, None, Undef),
     Envelope(Some(<<AddCmd("add_preview_object", SkyObject)>>),
              Some(<<"unsure which one">>), Some(TRUE), "ambiguous_target"),
     Envelope(Some(<<IdCmd("update_object", "tree-1")>>), None, None, Undef),
     ThrowsMidway}

InitServerSpec == ReducerIdle /\ ServerIdle /\ StoreIdle /\ guardRun = NoGuard /\ replay = NoReplay /\ call = NoCall /\ wire = NoWire

\* handleSubmitUtterance up to the await, for an utterance out of utterances
handleSubmitUtterance(utterances) ==
    \E u \in utterances :
        /\ received < MaxRequests
        /\ received' = received + 1
        /\ inflight' = inflight \cup
               {[seq |-> received + 1, utterance |-> u,
                 sceneSummary |-> canonical.sceneGraph]}
        /\ wire' = broadcast(wire, <<Plain("transcript_final")>>)
        /\ UNCHANGED <<canonical, applied, done, scene, last, guardRun, storeVars, replay, call>>

\* handleSubmitUtterance from the await on, the model's reply being one of
\* replies.  A throw of applyCommands rejects the promise: nothing of the
\* canonical state is written.
handleSubmitUtteranceResumed(replies) ==
    \E r \in inflight, reply \in replies :
      \E result \in {generateCommandEnvelope(r.utterance, r.sceneSummary, reply)} :
        \E folded \in {applyCommands(canonical.sceneGraph,
                                     Val(result.envelope.commands))} :
           /\ inflight' = inflight \ {r}
           /\ canonical' =
                 IF Has(result.refusal)
                 THEN Rejected(canonical, r.utterance, Val(result.refusal))
                 ELSE IF folded.threw THEN canonical
                 ELSE Applied(canonical, r.utterance, Val(result.envelope.commands),
                              folded.scene)
           /\ applied' = IF Has(result.refusal) \/ folded.threw THEN applied
                         ELSE Append(applied, r.seq)
           /\ done' = Done(IF Has(result.refusal) THEN "refused" ELSE "utterance",
                           r.seq, r.utterance, reply, result.envelope,
                           canonical.sceneGraph, ~Has(result.refusal) /\ folded.threw)
           /\ wire' = broadcast(wire,
                 IF Has(result.refusal)
                 THEN <<Plain("command_envelope"), Plain("status"),
                        sendSceneUpdate(canonical')>>
                 ELSE IF folded.threw THEN <<>>
                 ELSE <<Plain("command_envelope"), sendSceneUpdate(canonical')>>)
           /\ UNCHANGED <<received, scene, last, guardRun, storeVars, replay, call>>

\* handleApplyCommandEnvelope for an envelope out of envelopes; a throw of
\* applyCommands is caught by the message handler, which answers the sender
\* alone
handleApplyCommandEnvelope(envelopes) ==
    \E env \in envelopes :
        /\ received < MaxRequests
        /\ received' = received + 1
        /\ IF ~ValidEnvelope(Candidate("envelope", env, BlankCmd))
           THEN /\ done' = Done("invalid", received + 1, ManualLabel,
                                Candidate("envelope", env, BlankCmd), env,
                                canonical.sceneGraph, FALSE)
                /\ wire' = broadcast(wire, <<Plain("error")>>)
                /\ UNCHANGED <<canonical, applied>>
           ELSE \E envelope \in {ParsedEnvelope(Candidate("envelope", env, BlankCmd))} :
                  \E folded \in {applyCommands(canonical.sceneGraph,
                                               Val(envelope.commands))} :
                     /\ canonical' =
                           IF folded.threw THEN canonical
                           ELSE Applied(canonical, ManualLabel, Val(envelope.commands),
                                        folded.scene)
                     /\ applied' = IF folded.threw THEN applied
                                   ELSE Append(applied, received + 1)
                     /\ done' = Done("manual", received + 1, ManualLabel,
                                     Candidate("envelope", env, BlankCmd), envelope,
                                     canonical.sceneGraph, folded.threw)
                     /\ wire' = broadcast(wire,
                           IF folded.threw THEN <<>>
                           ELSE <<Plain("command_envelope"),
                                  sendSceneUpdate(canonical')>>)
        /\ UNCHANGED <<inflight, scene, last, guardRun, storeVars, replay, call>>

\* ws.on("message"), submit_utterance
SubmitUtterance == handleSubmitUtterance(Utterances)

\* the model answers a pending submit_utterance
ModelAnswers == handleSubmitUtteranceResumed(Replies)

\* ws.on("message"), apply_command_envelope
ApplyCommandEnvelope == handleApplyCommandEnvelope(ManualEnvelopes)

\* ws.on("message"), reset_scene: handleResetScene
ResetScene ==
    /\ received < MaxRequests
    /\ received' = received + 1
    /\ canonical' = [canonical EXCEPT !.sceneGraph = createEmptyScene,
                                      !.sessionEvents = <<>>,
                                      !.activePreviewIds = {},
                                      !.revision = @ + 1,
                                      !.lastTouchedObjectId = Null]
    /\ applied' = Append(applied, received + 1)
    /\ done' = Done("reset", received + 1, <<>>, NoReply, NoEnvelope,
                    canonical.sceneGraph, FALSE)
    /\ wire' = broadcast(wire, <<Plain("status"), sendSceneUpdate(canonical')>>)
    /\ UNCHANGED <<inflight, scene, last, guardRun, storeVars, replay, call>>

NextServer ==
    \/ SubmitUtterance
    \/ ModelAnswers
    \/ ApplyCommandEnvelope
    \/ ResetScene

SpecServer == InitServerSpec /\ [][NextServer]_vars

(***************************************************************************)
(* SpecIntake: the same handlers, fed with envelopes the validator is to   *)
(* turn away next to envelopes it is to let through: patches with an id or *)
(* a type key, adds whose status does not fit the command, transforms out  *)
(* of range                                                                *)
(***************************************************************************)
IntakeUtterances == {<<"add", "a", "tree">>}

\* a patch with a key the schema does not list
KeyedPatch(patch, key) == [patch EXCEPT !.extra = {key}]

\* the tree, its transform replaced
MovedTree(status, transform) == [TreeObject(status) EXCEPT !.transform = Some(transform)]

IntakeCommands ==
    {<<AddCmd("add_preview_object", TreeObject("preview"))>>,
     <<AddCmd("add_object", TreeObject("committed"))>>,
     <<AddCmd("add_object", TreeObject("preview"))>>,
     <<AddCmd("add_preview_object", TreeObject("committed"))>>,
     <<AddCmd("add_preview_object", SkyObject),
       UpdateCmd("update_object", "tree-1", KeyedPatch(LayerPatch, "id"))>>,
     <<AddCmd("add_preview_object", SkyObject),
       BatchCmd(<<BatchCmd(<<UpdateCmd("update_preview_object", "tree-1",
                                       KeyedPatch(EmptyPatch, "type"))>>)>>)>>,
     <<AddCmd("add_preview_object", SkyObject),
       UpdateCmd("update_object", "tree-1", LayerPatch)>>,
     <<AddCmd("add_object", MovedTree("committed", Transform(150, 70, 10, 0)))>>,
     <<AddCmd("add_preview_object", MovedTree("preview", Transform(50, 70, 50, 500)))>>}

\* an envelope that says refused and carries a command all the same
RefusedWithCommands ==
    Envelope(Some(<<AddCmd("add_preview_object", TreeObject("preview"))>>),
             Some(<<"unsure which one">>), Some(TRUE), "ambiguous_target")

\* replies that are no envelope: text that is no JSON, a scalar, an object
\* without commands, a command of no known type, and null for a command
MalformedReplies ==
    {Candidate("unparseable", NoEnvelope, BlankCmd),
     Candidate("scalar", NoEnvelope, BlankCmd),
     Candidate("envelope", NoEnvelope, BlankCmd),
     Candidate("command", NoEnvelope, [BlankCmd EXCEPT !.type = "draw_circle"]),
     Commands(<<JsonNull>>)}

IntakeReplies ==
    {Commands(cmds) : cmds \in IntakeCommands}
        \cup MalformedReplies
        \cup {Candidate("envelope", RefusedWithCommands, BlankCmd),
              Candidate("envelope", Envelope(None, None, Some(TRUE), Undef), BlankCmd)}

IntakeEnvelopes ==
    {Envelope(Some(cmds), None, None, Undef) : cmds \in IntakeCommands}
        \cup {RefusedWithCommands}

\* ws.on("message"), submit_utterance
SubmitIntake == handleSubmitUtterance(IntakeUtterances)

\* the model answers a pending submit_utterance
ModelAnswersIntake == handleSubmitUtteranceResumed(IntakeReplies)

\* ws.on("message"), apply_command_envelope
ApplyIntake == handleApplyCommandEnvelope(IntakeEnvelopes)

NextIntake ==
    \/ SubmitIntake
    \/ ModelAnswersIntake
    \/ ApplyIntake
    \/ ResetScene

SpecIntake == InitServerSpec /\ [][NextIntake]_vars

(***************************************************************************)
(* SpecLongSession: the handlers late in a session, the event log holding   *)
(* one event less than it can, as many as it can, or one before that        *)
(***************************************************************************)
\* the event of the i-th manual envelope of the session, sent with a label
\* of its own and no commands
LoggedEvent(i) == SessionEvent(<<"step", ToString(i)>>, <<>>, "applied", Undef)

History(n) == [i \in 1..n |-> LoggedEvent(i)]

HistoryLengths == {EventWindow - 1, EventWindow, EventWindow + 1}

LongSessionReplies ==
    {Commands(<<AddCmd("add_preview_object", TreeObject("preview"))>>),
     Candidate("unparseable", NoEnvelope, BlankCmd)}

LongSessionEnvelopes ==
    {Envelope(Some(<<AddCmd("add_object", TreeObject("committed"))>>), None, None, Undef)}

\* the server after n manual envelopes without commands; requests are
\* counted from here on
InitLongSession ==
    /\ ReducerIdle
    /\ StoreIdle
    /\ guardRun = NoGuard /\ replay = NoReplay /\ call = NoCall
    /\ inflight = {}
    /\ received = 0
    /\ applied = <<>>
    /\ done = Done("init", 0, <<>>, NoReply, NoEnvelope, createEmptyScene, FALSE)
    /\ \E n \in HistoryLengths :
          /\ canonical = [InitCanonical EXCEPT !.sessionEvents = History(n),
                                               !.revision = n]
          /\ wire = [sent |-> <<Plain("command_envelope"), sendSceneUpdate(canonical)>>,
                     prev |-> n - 1]

SubmitLate == handleSubmitUtterance(IntakeUtterances)

ModelAnswersLate == handleSubmitUtteranceResumed(LongSessionReplies)

ApplyLate == handleApplyCommandEnvelope(LongSessionEnvelopes)

\* recordVoiceCanonicalizationRepeat: a spoken transcript the canonicalizer
\* did not accept is logged as rejected; notes is its message
recordVoiceCanonicalizationRepeat ==
    \E u \in IntakeUtterances :
        /\ received < MaxRequests
        /\ received' = received + 1
        /\ canonical' = Rejected(canonical, u, "please_repeat")
        /\ done' = Done("voice_repeat", received + 1, u, NoReply, NoEnvelope,
                        canonical.sceneGraph, FALSE)
        /\ wire' = broadcast(wire, <<Plain("transcript_final"), Plain("status"),
                                     sendSceneUpdate(canonical')>>)
        /\ UNCHANGED <<inflight, applied, scene, last, guardRun, storeVars, replay, call>>

NextLongSession ==
    \/ SubmitLate
    \/ ModelAnswersLate
    \/ ApplyLate
    \/ ResetScene
    \/ recordVoiceCanonicalizationRepeat

SpecLongSession == InitLongSession /\ [][NextLongSession]_vars

(***************************************************************************)
(* SpecStale: the same handlers around a field drawn as a stack of bands:   *)
(* a manual envelope has added it, another one redraws it as one rect, and  *)
(* an utterance asks to stretch it                                          *)
(***************************************************************************)
FieldObject ==
    SceneObject("field-1", "committed", "ground", Some(Transform(0, 55, 10, 0)), "field",
                Some(<<Rect("row-1", 0, 0, 100, 20), Rect("row-2", 0, 20, 100, 10),
                       Rect("row-3", 0, 30, 100, 15)>>))

LawnShapes == <<Rect("lawn", 0, 0, 100, 45)>>

StaleUtterances == {<<"stretch", "the", "field">>, <<"more", "rows">>}

StaleReplies ==
    {Commands(<<UpdateCmd("update_object", "field-1",
                          Patch(Undef, Undef, Some(Transform(Missing, Missing, 12, Missing)),
                                Undef, None))>>),
     Commands(<<UpdateCmd("update_object", "field-1",
                          Patch(Undef, Undef, None, Undef,
                                Some(<<Rect("row-1", 0, 0, 100, 5), Rect("row-2", 0, 5, 100, 5),
                                       Rect("row-3", 0, 10, 100, 5),
                                       Rect("row-4", 0, 15, 100, 5)>>)))>>),
     Commands(<<AddCmd("add_object", TreeObject("committed"))>>)}

FieldAdded == Envelope(Some(<<AddCmd("add_object", FieldObject)>>), None, None, Undef)

StaleEnvelopes ==
    {FieldAdded,
     Envelope(Some(<<UpdateCmd("update_object", "field-1",
                               Patch(Undef, Undef, None, Undef, Some(LawnShapes)))>>),
              None, None, Undef),
     Envelope(Some(<<IdCmd("delete_object", "field-1")>>), None, None, Undef)}

\* the server after a manual envelope that added the field; requests are
\* counted from here on
InitStale ==
    /\ ReducerIdle
    /\ StoreIdle
    /\ guardRun = NoGuard /\ replay = NoReplay /\ call = NoCall
    /\ inflight = {}
    /\ received = 0
    /\ applied = <<>>
    /\ done = Done("init", 0, <<>>, NoReply, NoEnvelope, createEmptyScene, FALSE)
    /\ canonical = Applied(InitCanonical, ManualLabel, Val(FieldAdded.commands),
                           applyCommands(createEmptyScene, Val(FieldAdded.commands)).scene)
    /\ wire = broadcast(NoWire, <<Plain("command_envelope"), sendSceneUpdate(canonical)>>)

SubmitStale == handleSubmitUtterance(StaleUtterances)

ModelAnswersStale == handleSubmitUtteranceResumed(StaleReplies)

ApplyStale == handleApplyCommandEnvelope(StaleEnvelopes)

NextStale ==
    \/ SubmitStale
    \/ ModelAnswersStale
    \/ ApplyStale
    \/ ResetScene

SpecStale == InitStale /\ [][NextStale]_vars

(***************************************************************************)
(* SpecGuard: stripDestructiveCommands applied to a validated command list *)
(* and an utterance                                                        *)
(***************************************************************************)
MaxGuardLen == 2

GuardUtterances ==
    {<<"add", "a", "tree">>, <<"delete", "the", "tree">>, <<"Delete", "it">>,
     <<"cancel", "that">>, <<"undo", "that">>, <<"discard", "it">>,
     <<"get", "rid", "of", "it">>, <<"make", "it", "into", "a", "bush">>,
     <<"convert", "it", "to", "a", "bush">>, <<"turn", "it", "into", "a", "bush">>}

GuardLeaves ==
    {IdCmd("delete_object", "tree-1"),
     IdCmd("cancel_preview_object", "tree-1"),
     IdCmd("commit_preview_object", "tree-1"),
     UpdateCmd("update_object", "tree-1", Patch("ground", Undef, None, "bush", None)),
     UpdateCmd("update_preview_object", "tree-1", LayerPatch)}

GuardCommands ==
    GuardLeaves \cup {BatchCmd(q) : q \in SeqsUpTo(GuardLeaves, 1)}

InitGuard ==
    /\ ReducerIdle
    /\ StoreIdle
    /\ ServerIdle
    /\ replay = NoReplay /\ call = NoCall /\ wire = NoWire
    /\ guardRun \in {[NoGuard EXCEPT !.phase = "input", !.utterance = u, !.cmds = c] :
                    u \in GuardUtterances, c \in SeqsUpTo(GuardCommands, MaxGuardLen)}

StripDestructive ==
    /\ guardRun.phase = "input"
    /\ guardRun' = [guardRun EXCEPT !.phase = "output",
                              !.out = stripDestructiveCommands(guardRun.cmds, guardRun.utterance)]
    /\ UNCHANGED <<reducerVars, serverVars, storeVars, replay, call, wire>>

NextGuard == StripDestructive

SpecGuard == InitGuard /\ [][NextGuard]_vars

\* the leaf commands of a command list in their order, batches opened
RECURSIVE Leaves(_)
Leaves(cmds) ==
    IF cmds = <<>> THEN <<>>
    ELSE (IF Head(cmds).type = "batch" /\ Has(Head(cmds).commands)
          THEN Leaves(Val(Head(cmds).commands)) ELSE <<Head(cmds)>>)
         \o Leaves(Tail(cmds))

(***************************************************************************)
(* SpecReplay: applyCommands run on a scene the reducer built, with a      *)
(* first and a second command list: the second list on the result of the   *)
(* first, the two lists concatenated, the same once more, and the          *)
(* concatenation with its batches opened                                   *)
(***************************************************************************)
MaxSeedLen == 2
MaxReplayLen == 1

RockObject == NewObject("rock-1", "committed", "ground", "rock")

\* the commands that build the start scenes
ReplaySeeds ==
    {AddCmd("add_preview_object", NewObject("tree-1", "preview", "ground", "tree")),
     AddCmd("add_object", RockObject),
     AddCmd("add_object", NewObject("sky-1", "committed", "sky", "sky")),
     UpdateCmd("update_object", "tree-1", Patch("constructor", Undef, None, Undef, None))}

ReplayScenes ==
    {applyCommands(createEmptyScene, p).scene : p \in SeqsUpTo(ReplaySeeds, MaxSeedLen)}

ReplayLeaves ==
    ReplaySeeds
    \cup {AddCmd("add_object", NewObject("lake-1", "committed", "ground", "water")),
          UpdateCmd("update_object", "tree-1", Patch("sky", Undef, None, Undef, None)),
          UpdateCmd("update_object", "rock-1", Patch(Undef, Undef, None, "water", None)),
          UpdateCmd("update_preview_object", "tree-1",
                    Patch(Undef, "committed", None, Undef, None)),
          UpdateCmd("update_preview_object", "tree-1",
                    Patch(Undef, Undef, Some(Transform(150, 20, Missing, Missing)),
                          Undef, None)),
          UpdateCmd("update_object", "rock-1",
                    Patch(Undef, Undef, None, TagNonString, None)),
          UpdateCmd("update_object", "tree-1", EmptyPatch),
          UpdateCmd("update_object", "constructor", EmptyPatch),
          IdCmd("commit_preview_object", "tree-1"),
          IdCmd("cancel_preview_object", "tree-1"),
          IdCmd("cancel_preview_object", "rock-1"),
          IdCmd("delete_object", "tree-1"),
          IntentCmd("a calm meadow")}

ReplayBatches ==
    {BatchCmd(<<>>),
     BatchCmd(<<AddCmd("add_preview_object",
                       NewObject("tree-1", "preview", "ground", "tree")),
                BatchCmd(<<IdCmd("commit_preview_object", "tree-1"),
                           BatchCmd(<<UpdateCmd("update_object", "tree-1",
                                                Patch("sky", Undef, None, Undef, None))>>),
                           IdCmd("delete_object", "sky-1")>>),
                AddCmd("add_object", RockObject)>>)}

\* what DrawingCommandSchema accepts of them
ReplayCommands == {c \in ReplayLeaves \cup ReplayBatches : ValidCommand(c)}

InitReplay ==
    /\ ReducerIdle
    /\ StoreIdle
    /\ ServerIdle
    /\ guardRun = NoGuard
    /\ call = NoCall
    /\ wire = NoWire
    /\ replay \in {[NoReplay EXCEPT !.phase = "input", !.start = s,
                                    !.first = f, !.second = g] :
                     s \in ReplayScenes,
                     f \in SeqsUpTo(ReplayCommands, MaxReplayLen),
                     g \in {<<>>} \cup {<<c>> : c \in ReplayCommands}}

\* applyCommands(S, C1)
ApplyFirst ==
    /\ replay.phase = "input"
    /\ replay' = [replay EXCEPT !.phase = "first",
                                !.mid = applyCommands(replay.start, replay.first)]
    /\ UNCHANGED <<reducerVars, serverVars, guardRun, storeVars, call, wire>>

\* applyCommands(applyCommands(S, C1), C2)
ApplySecond ==
    /\ replay.phase = "first"
    /\ ~replay.mid.threw
    /\ replay' = [replay EXCEPT !.phase = "second",
                                !.stepwise = applyCommands(replay.mid.scene, replay.second)]
    /\ UNCHANGED <<reducerVars, serverVars, guardRun, storeVars, call, wire>>

\* applyCommands(S, [...C1, ...C2])
ApplyConcatenated ==
    /\ replay.phase = "second"
    /\ replay' = [replay EXCEPT !.phase = "whole",
                                !.whole = applyCommands(replay.start,
                                                        replay.first \o replay.second)]
    /\ UNCHANGED <<reducerVars, serverVars, guardRun, storeVars, call, wire>>

\* the same call once more, from the same scene
ApplyAgain ==
    /\ replay.phase = "whole"
    /\ replay' = [replay EXCEPT !.phase = "again",
                                !.again = applyCommands(replay.start,
                                                        replay.first \o replay.second)]
    /\ UNCHANGED <<reducerVars, serverVars, guardRun, storeVars, call, wire>>

\* applyCommands on the leaf commands of [...C1, ...C2], every batch opened
ApplyFlattened ==
    /\ replay.phase = "again"
    /\ replay' = [replay EXCEPT !.phase = "flat",
                                !.flat = applyCommands(replay.start,
                                                       Leaves(replay.first \o replay.second))]
    /\ UNCHANGED <<reducerVars, serverVars, guardRun, storeVars, call, wire>>

NextReplay ==
    \/ ApplyFirst
    \/ ApplySecond
    \/ ApplyConcatenated
    \/ ApplyAgain
    \/ ApplyFlattened

SpecReplay == InitReplay /\ [][NextReplay]_vars

(***************************************************************************)
(* SpecClamp: clampTransform, and the clamp of a patch's transform in       *)
(* postProcessEnvelope, applied to a transform and once more to the result  *)
(***************************************************************************)
\* values below, at, within, at and above the bounds of a field, a missing
\* field and one that is not a number
Samples(below, lo, mid, hi, above) == {below, lo, mid, hi, above, Missing, NotNum}

ClampInputs ==
    {Transform(x, y, sc, r) :
        x \in Samples(0 - 50, CoordMin, 50, CoordMax, 150),
        y \in Samples(0 - 50, CoordMin, 50, CoordMax, 150),
        sc \in Samples(0, ScaleMin, 10, ScaleMax, 100),
        r \in Samples(0 - 500, RotationMin, 0, RotationMax, 500)}

MoveUtterance == <<"move", "it">>

\* the transform postProcessEnvelope leaves in the patch of an update that
\* carried transform t
PatchTransformAfter(t) ==
    Val(Val(Val(postProcessEnvelope(
                    Envelope(Some(<<UpdateCmd("update_object", "tree-1",
                                              Patch(Undef, Undef, Some(t), Undef, None))>>),
                             None, None, Undef),
                    MoveUtterance, Some(createEmptyScene),
                    coverageModeFromUtterance(MoveUtterance)).commands)[1].patch).transform)

InitClamp ==
    /\ ReducerIdle
    /\ StoreIdle
    /\ ServerIdle
    /\ guardRun = NoGuard
    /\ replay = NoReplay
    /\ wire = NoWire
    /\ call \in {[NoCall EXCEPT !.phase = "input", !.arg = t] : t \in ClampInputs}

\* clampTransform(t)
ClampTransform ==
    /\ call.phase = "input"
    /\ call' = [call EXCEPT !.phase = "once", !.fn = "clampTransform",
                            !.out = clampTransform(call.arg)]
    /\ UNCHANGED <<reducerVars, serverVars, guardRun, storeVars, replay, wire>>

\* postProcessEnvelope on an update whose patch carries t
ClampPatchTransform ==
    /\ call.phase = "input"
    /\ call' = [call EXCEPT !.phase = "once", !.fn = "postProcessEnvelope",
                            !.out = PatchTransformAfter(call.arg)]
    /\ UNCHANGED <<reducerVars, serverVars, guardRun, storeVars, replay, wire>>

\* the same function on its own result
ClampAgain ==
    /\ call.phase = "once"
    /\ call' = [call EXCEPT !.phase = "twice",
                            !.again = IF call.fn = "clampTransform"
                                      THEN clampTransform(call.out)
                                      ELSE PatchTransformAfter(call.out)]
    /\ UNCHANGED <<reducerVars, serverVars, guardRun, storeVars, replay, wire>>

NextClamp ==
    \/ ClampTransform
    \/ ClampPatchTransform
    \/ ClampAgain

SpecClamp == InitClamp /\ [][NextClamp]_vars

(***************************************************************************)
(* SpecNormalize: normalizeMissingPatch applied to an update command whose  *)
(* fields sit at top level, in an `object` wrapper, in patch, or nowhere    *)
(***************************************************************************)
Maybes(v) == {None, Some(v)}

WrapperInputs ==
    {None, Some(EmptyObject),
     Some([EmptyObject EXCEPT !.semanticTag = "rock", !.layer = "sky"]),
     Some(SceneObject(Undef, "preview", "sky", Some(Transform(20, 30, 10, 0)), "rock",
                      Some(<<Circle("c1", 0, 0, 5)>>)))}

PatchInputsStray ==
    {None, Some(EmptyPatch),
     Some(Patch("ground", Undef, None, Undef, None)),
     Some(Patch(Undef, Undef, Some(Transform(70, 80, 10, 0)), "tree", None))}

StrayUpdates ==
    {[UpdateCmd(type, "tree-1", EmptyPatch) EXCEPT
         !.patch = patch, !.object = object, !.transform = transform,
         !.shapes = shapes, !.layer = layer, !.status = status,
         !.semanticTag = semanticTag] :
        type \in UpdateTypes, patch \in PatchInputsStray, object \in WrapperInputs,
        transform \in Maybes(Transform(10, 46, 12, 0)),
        shapes \in Maybes(<<Rect("r1", 0, 0, 10, 10)>>),
        layer \in {Undef, "foreground"}, status \in {Undef, "committed"},
        semanticTag \in {Undef, "bush"}}

InitNormalize ==
    /\ ReducerIdle
    /\ StoreIdle
    /\ ServerIdle
    /\ guardRun = NoGuard
    /\ replay = NoReplay
    /\ wire = NoWire
    /\ call \in {[NoCall EXCEPT !.phase = "input", !.arg = c] : c \in StrayUpdates}

\* normalizeMissingPatch(cmd)
NormalizeMissingPatch ==
    /\ call.phase = "input"
    /\ call' = [call EXCEPT !.phase = "once", !.fn = "normalizeMissingPatch",
                            !.out = normalizeMissingPatch(call.arg)]
    /\ UNCHANGED <<reducerVars, serverVars, guardRun, storeVars, replay, wire>>

NextNormalize == NormalizeMissingPatch

SpecNormalize == InitNormalize /\ [][NextNormalize]_vars

(***************************************************************************)
(* SpecRepair: normalizeCommandArray applied to a one-command list, the     *)
(* command at top level or inside batches, and once more to the result      *)
(***************************************************************************)
\* a target command with its type and its target under each spelling
RenamedTargets ==
    {[[BlankCmd EXCEPT ![typeKey] = t, ![idKey] = "tree-1"] EXCEPT
         !.patch = IF t = "update_object" THEN Some(LayerPatch) ELSE None] :
        typeKey \in {"type", "command_type"},
        idKey \in {"id", "objectId", "object_id"},
        t \in {"update_object", "delete_object", "commit_preview_object"}}

\* add commands that carry the object's fields at top level
LegacyAdds ==
    {LegacyAdd,
     [BlankCmd EXCEPT !.type = "add_preview_object", !.objectId = "bush-1",
                      !.layer = "foreground",
                      !.transform = Some(Transform(20, 30, 10, 0)),
                      !.shapes = Some(<<Rect("b", 120, 0 - 5, 10, 10)>>)],
     [BlankCmd EXCEPT !.type = "add_object", !.object_type = "fence",
                      !.shapes = Some(<<LegacyLine("rail", 0, 50, 100, 50)>>)]}

FenceObject ==
    SceneObject("fence-1", "committed", "ground", Some(Transform(50, 70, 10, 0)), "fence",
                Some(<<LegacyLine("rail", 0, 50, 100, 50), Rect("post", 0, 40, 2, 10)>>))

\* update commands whose fields sit outside patch, and commands whose line
\* shapes are given by their end points
StrayAndLineInputs ==
    {StrayTagUpdate, WrappedTagUpdate,
     [IdCmd("update_object", "tree-1") EXCEPT !.transform = Some(Transform(10, 46, 12, 0))],
     [UpdateCmd("update_preview_object", "tree-1", LayerPatch) EXCEPT
         !.shapes = Some(<<Rect("r1", 0, 0, 10, 10)>>)],
     AddCmd("add_object", FenceObject),
     UpdateCmd("update_object", "fence-1",
               Patch(Undef, Undef, None, Undef, Some(<<LegacyLine("rail", 0, 50, 100, 50)>>)))}

\* commands as the grammar wants them
CorrectInputs ==
    {AddCmd("add_object", TreeObject("committed")),
     AddCmd("add_preview_object", SkyObject),
     AddCmd("add_object",
            [FenceObject EXCEPT !.shapes = Some(<<Line("rail", <<0, 50, 100, 50>>)>>)]),
     UpdateCmd("update_object", "tree-1", LayerPatch),
     UpdateCmd("update_preview_object", "sky-1", EmptyPatch),
     UpdateCmd("update_object", "tree-1",
               Patch(Undef, Undef, Some(Transform(20, 30, 10, 0)), Undef,
                     Some(<<Circle("c1", 0, 0, 5)>>))),
     IdCmd("commit_preview_object", "sky-1"),
     IdCmd("delete_object", "tree-1"),
     IntentCmd("a calm meadow"),
     FillCmd("#3db85a"),
     BatchCmd(<<IdCmd("delete_object", "tree-1"),
                UpdateCmd("update_object", "tree-1", LayerPatch)>>)}

RepairInputs == RenamedTargets \cup LegacyAdds \cup StrayAndLineInputs \cup CorrectInputs

\* cmd inside depth levels of batch; depth 0 is the top level
Nested(cmd, depth) == IF depth = 0 THEN cmd ELSE NestedBatch(<<>>, <<cmd>>, depth)

InitRepair ==
    /\ ReducerIdle
    /\ StoreIdle
    /\ ServerIdle
    /\ guardRun = NoGuard
    /\ replay = NoReplay
    /\ wire = NoWire
    /\ call \in {[NoCall EXCEPT !.phase = "input",
                                !.arg = [cmd |-> c, depth |-> d,
                                         list |-> <<Nested(c, d)>>]] :
                    c \in RepairInputs, d \in 0..MaxBatchDepth}

\* normalizeCommandArray(commands)
NormalizeCommandArray ==
    /\ call.phase = "input"
    /\ call' = [call EXCEPT !.phase = "once", !.fn = "normalizeCommandArray",
                            !.out = normalizeCommandArray(call.arg.list)]
    /\ UNCHANGED <<reducerVars, serverVars, guardRun, storeVars, replay, wire>>

\* normalizeCommandArray on its own result
NormalizeAgain ==
    /\ call.phase = "once"
    /\ call' = [call EXCEPT !.phase = "twice",
                            !.again = normalizeCommandArray(call.out)]
    /\ UNCHANGED <<reducerVars, serverVars, guardRun, storeVars, replay, wire>>

NextRepair ==
    \/ NormalizeCommandArray
    \/ NormalizeAgain

SpecRepair == InitRepair /\ [][NextRepair]_vars

(***************************************************************************)
(* SpecBands: normalizeBandStack applied to a stack of full-width rects    *)
(* and a target height                                                     *)
(***************************************************************************)
MaxBands == 4

BandId(i) == "band-" \o ToString(i)

\* n full-width rects in any vertical order, of unequal heights, the first one
\* a little off the left edge or a little short of the right one
BandStacks(n) ==
    {[i \in 1..n |->
        Rect(BandId(i), IF i = 1 THEN x ELSE 0, ys[i],
             IF i = 1 THEN w ELSE 100, hs[i])] :
        ys \in [1..n -> {0, 30}], hs \in [1..n -> {5, 40}],
        x \in {0, 1}, w \in {95, 100}}

\* shapes of the object that are no band
OtherShapes == {<<>>, <<Circle("sun", 80, 10, 5), Rect("hut", 40, 50, 10, 10)>>}

TargetHeights == {1, 2, 3, 4, 5, 7, HORIZON_Y, 100 - HORIZON_Y, 100}

BandInputs ==
    {[shapes |-> others \o stack, targetHeight |-> h] :
        stack \in UNION {BandStacks(n) : n \in MinBandRects..MaxBands},
        others \in OtherShapes, h \in TargetHeights}

InitBands ==
    /\ ReducerIdle
    /\ StoreIdle
    /\ ServerIdle
    /\ guardRun = NoGuard
    /\ replay = NoReplay
    /\ wire = NoWire
    /\ call \in {[NoCall EXCEPT !.phase = "input", !.arg = a] : a \in BandInputs}

\* normalizeBandStack(shapes, targetHeight)
NormalizeBandStack ==
    /\ call.phase = "input"
    /\ call' = [call EXCEPT !.phase = "once", !.fn = "normalizeBandStack",
                            !.out = normalizeBandStack(call.arg.shapes,
                                                       call.arg.targetHeight)]
    /\ UNCHANGED <<reducerVars, serverVars, guardRun, storeVars, replay, wire>>

NextBands == NormalizeBandStack

SpecBands == InitBands /\ [][NextBands]_vars

(***************************************************************************)
(* SpecRealism: applyRealismPass applied to an envelope with one add       *)
(* command, at top level or inside a batch, and an utterance                *)
(***************************************************************************)
\* tags with macro shapes of their own, backdrop tags, a tag with neither and
\* no tag
RealismTags ==
    DOMAIN MIN_SHAPES_BY_TAG \cup BACKDROP_TAGS \cup {"grass", "rock", Undef}

\* an object of n shapes
Shapes(n) == [i \in 1..n |-> Rect("s-" \o ToString(i), i, 0, 10, 10)]

ShapeCounts == {MinShapes, 2, 3, 4, MaxShapes - 1, MaxShapes}

RealismUtterances ==
    {<<"add", "it">>, <<"a", "simple", "one">>, <<"make", "it", "realistic">>,
     <<"a", "proper", "one", "on", "the", "whole", "canvas">>}

RealismInputs ==
    {[envelope |-> Envelope(Some(<<IF nested THEN BatchCmd(<<add>>) ELSE add>>),
                            None, None, Undef),
      utterance |-> u] :
        add \in {AddCmd(type, SceneObject("obj-1", StatusFor(type), "ground",
                                          Some(DefaultTransform), tag, Some(Shapes(n)))) :
                    type \in AddTypes, tag \in RealismTags, n \in ShapeCounts},
        nested \in BOOLEAN, u \in RealismUtterances}

InitRealism ==
    /\ ReducerIdle
    /\ StoreIdle
    /\ ServerIdle
    /\ guardRun = NoGuard
    /\ replay = NoReplay
    /\ wire = NoWire
    /\ call \in {[NoCall EXCEPT !.phase = "input", !.arg = a] : a \in RealismInputs}

\* applyRealismPass(envelope, utterance)
ApplyRealismPass ==
    /\ call.phase = "input"
    /\ call' = [call EXCEPT !.phase = "once", !.fn = "applyRealismPass",
                            !.out = applyRealismPass(call.arg.envelope,
                                                     call.arg.utterance)]
    /\ UNCHANGED <<reducerVars, serverVars, guardRun, storeVars, replay, wire>>

NextRealism == ApplyRealismPass

SpecRealism == InitRealism /\ [][NextRealism]_vars

(***************************************************************************)
(* SpecBackdrop: generateCommandEnvelope on a reply that adds one object   *)
(* drawn as full-width rects, on the empty scene                            *)
(***************************************************************************)
BackdropUtterances ==
    {<<"add", "a", "sky">>, <<"add", "rows", "of", "rice">>,
     <<"cover", "the", "whole", "canvas">>}

\* three bands of unequal heights, two bands, one rect
BackdropShapes ==
    {<<Rect("band-1", 0, 0, 100, 10), Rect("band-2", 0, 10, 100, 20),
       Rect("band-3", 0, 30, 100, 15)>>,
     <<Rect("band-1", 0, 0, 100, 20), Rect("band-2", 0, 20, 100, 25)>>,
     <<Rect("band-1", 0, 0, 100, 45)>>}

BackdropReplies ==
    {Commands(<<AddCmd(type, SceneObject("backdrop-1", StatusFor(type), layer,
                                         Some(UnitTransform), tag, Some(shapes)))>>) :
        type \in AddTypes, layer \in {"sky", "ground", "background"},
        tag \in {"sky", "field", "water", "tree", Undef}, shapes \in BackdropShapes}

InitBackdrop ==
    /\ ReducerIdle
    /\ StoreIdle
    /\ ServerIdle
    /\ guardRun = NoGuard
    /\ replay = NoReplay
    /\ wire = NoWire
    /\ call \in {[NoCall EXCEPT !.phase = "input",
                                !.arg = [utterance |-> u, reply |-> r]] :
                    u \in BackdropUtterances, r \in BackdropReplies}

\* generateCommandEnvelope for the utterance, the model having answered reply
GenerateCommandEnvelope ==
    /\ call.phase = "input"
    /\ call' = [call EXCEPT
                  !.phase = "once", !.fn = "generateCommandEnvelope",
                  !.out = generateCommandEnvelope(call.arg.utterance, createEmptyScene,
                                                  call.arg.reply).envelope]
    /\ UNCHANGED <<reducerVars, serverVars, guardRun, storeVars, replay, wire>>

NextBackdrop == GenerateCommandEnvelope

SpecBackdrop == InitBackdrop /\ [][NextBackdrop]_vars

(***************************************************************************)
(* SpecHistory: the client's history store under applyEvent, undo, redo,   *)
(* clear and reset                                                         *)
(***************************************************************************)
MaxHistory == 3

HistoryUtterances == {<<"add", "a", "tree">>}

\* a transform patch that moves by a delta
MoveBy(dx) == Transform(Missing, Missing, Missing, Missing) @@ [dx |-> dx]

HistoryCommands ==
    {<<AddCmd("add_object", TreeObject("committed"))>>,
     <<AddCmd("add_preview_object", TreeObject("preview"))>>,
     <<UpdateCmd("update_object", "tree-1",
                 Patch(Undef, Undef, Some(MoveBy(30)), Undef, None))>>,
     <<IdCmd("commit_preview_object", "tree-1")>>,
     <<BatchCmd(<<IdCmd("delete_object", "tree-1"),
                  AddCmd("add_preview_object", SkyObject)>>)>>}

HistoryJson ==
    {JsonString(TRUE, Candidate("envelope", Envelope(Some(cmds), None, None, Undef), BlankCmd)) :
        cmds \in HistoryCommands}
    \cup {JsonString(TRUE, Candidate("envelope",
                                     Envelope(Some(<<IdCmd("update_object", "tree-1")>>),
                                              None, None, Undef), BlankCmd)),
          JsonString(TRUE, Candidate("scalar", NoEnvelope, BlankCmd)),
          JsonString(FALSE, Candidate("none", NoEnvelope, BlankCmd))}

ApplyMs == {0, 1}

InitHistory ==
    /\ ReducerIdle
    /\ ServerIdle
    /\ StoreIdle
    /\ guardRun = NoGuard /\ replay = NoReplay /\ call = NoCall /\ wire = NoWire

\* a call of the store: it leaves the state the method returns
Called(op, r) ==
    /\ state' = r.state
    /\ historyOp' = HistoryOp(op, state, r.ok)
    /\ UNCHANGED <<reducerVars, serverVars, guardRun, replay, call, wire>>

ApplyEvent ==
    \E u \in HistoryUtterances, j \in HistoryJson, ms \in ApplyMs :
        /\ Len(state.events) < MaxHistory
        /\ Called("applyEvent", applyEvent(state, u, j, ms))

Undo == Called("undo", undo(state))

Redo == Called("redo", redo(state))

Clear == Called("clear", clear(state))

ResetHistory == Called("reset", reset(state))

NextHistory ==
    \/ ApplyEvent
    \/ Undo
    \/ Redo
    \/ Clear
    \/ ResetHistory

SpecHistory == InitHistory /\ [][NextHistory]_vars

(***************************************************************************)
(* Claims about the reducer, checked under Spec                            *)
(***************************************************************************)
Range(seq) == {seq[i] : i \in 1..Len(seq)}

\* C1: every id in order is a key of objects, every key of objects is in
\* order, and no id occurs in order twice.
C1_OrderIsBijection ==
    /\ Range(scene.order) \subseteq DOMAIN scene.objects
    /\ DOMAIN scene.objects \subseteq Range(scene.order)
    /\ \A i, j \in 1..Len(scene.order) : scene.order[i] = scene.order[j] => i = j

\* C2: order is sorted by paint key: within each of the layers sky,
\* background, ground and foreground every backdrop-tagged object precedes
\* every non-backdrop object, and sky objects precede background objects,
\* which precede ground objects, which precede foreground objects.
C2_PaintOrder ==
    \A i, j \in 1..Len(scene.order) :
        LET a == Get(scene.objects, scene.order[i])
            b == Get(scene.objects, scene.order[j])
        IN /\ (a.layer = b.layer /\ a.layer \in SceneLayer
                   /\ isBackdrop(a.semanticTag) /\ ~isBackdrop(b.semanticTag)) => i < j
           /\ (a.layer \in SceneLayer /\ b.layer \in SceneLayer
                   /\ LAYER_RANK[a.layer] < LAYER_RANK[b.layer]) => i < j

\* a backdrop that arrived last stands before a non-backdrop of its layer
C2_Witness ==
    /\ last.kind = "add" /\ last.changed
    /\ \E i, j \in 1..Len(scene.order) :
        LET a == scene.objects[scene.order[i]]
            b == scene.objects[scene.order[j]]
        IN /\ i < j
           /\ a.id = last.id
           /\ a.layer = b.layer /\ a.layer \in SceneLayer
           /\ isBackdrop(a.semanticTag) /\ ~isBackdrop(b.semanticTag)

\* C3: an update never moves a committed object back out of committed.
C3_StatusNeverRegresses ==
    [][\A id \in DOMAIN scene.objects :
          (last'.kind = "update" /\ last'.id = id
              /\ scene.objects[id].status = "committed"
              /\ id \in DOMAIN scene'.objects)
          => scene'.objects[id].status = "committed"]_vars

\* C4: every stored object that an add command created has a status of
\* preview or committed, one of the four layers, and 1 to 60 shapes.
C4_ObjectsStayValid ==
    \A id \in DOMAIN scene.objects \cap Ids :
        LET o == scene.objects[id] IN
        /\ o.status \in SceneObjectStatus
        /\ o.layer \in SceneLayer
        /\ Has(o.shapes)
        /\ Len(Val(o.shapes)) >= MinShapes /\ Len(Val(o.shapes)) <= MaxShapes

(***************************************************************************)
(* Claims about the request handlers, checked under SpecServer             *)
(***************************************************************************)
ObjectIds(sceneGraph) == DOMAIN sceneGraph.objects

\* the commands of the model's reply as it wrote them
ReplyCommands(reply) ==
    CASE reply.json \in {"envelope", "wrapped"} /\ Has(reply.env.commands) ->
           Val(reply.env.commands)
      [] reply.json = "command" -> <<reply.cmd>>
      [] OTHER -> <<>>

Destructive(cmds) ==
    SelectSeq(Leaves(cmds),
              LAMBDA c : c.type \in {"delete_object", "cancel_preview_object"})

HasFragments(notes, fragments) ==
    /\ Has(notes)
    /\ \E i \in 1..(Len(Val(notes)) - Len(fragments) + 1) :
          SubSeq(Val(notes), i, i + Len(fragments) - 1) = fragments

\* the destructive vocabulary the specification lists
ListedDestructiveWords ==
    {<<"delete">>, <<"remove">>, <<"erase">>, <<"clear">>, <<"discard">>, <<"wipe">>,
     <<"cancel">>, <<"undo">>}

DeleteWords ==
    {<<"delete">>, <<"remove">>, <<"erase">>, <<"clear">>, <<"get", "rid">>,
     <<"discard">>, <<"wipe">>}

CancelWords == {<<"cancel">>, <<"discard">>, <<"undo">>}

\* the conversion vocabulary the specification lists
ListedConversionPhrases ==
    {<<"turn", "into">>, <<"convert">>, <<"transform">>, <<"change", "into">>}

ConversionPhrases == ListedConversionPhrases \cup {<<"make", "it", "into">>}

\* C5: requests take effect on the canonical scene in the order the server
\* received them: the request numbers of the effects are increasing.
C5_EffectsInArrivalOrder ==
    \A i, j \in 1..Len(applied) : i < j => applied[i] < applied[j]

\* C6: an envelope with refused = true, from the model or from a client,
\* leaves the canonical scene graph as the handler found it.
C6_RefusedChangesNothing ==
    (done.op \in {"utterance", "refused", "manual"} /\ done.envelope.refused = Some(TRUE))
        => canonical.sceneGraph = done.before

\* C7 as stated, the destructive vocabulary being the listed words: an
\* utterance without them removes no object from the canonical scene.
C7_NoRemovalWithoutListedWords ==
    (done.op \in {"utterance", "refused"}
        /\ ~HasAny(done.utterance, ListedDestructiveWords))
        => ObjectIds(done.before) \subseteq ObjectIds(canonical.sceneGraph)

\* C7: an utterance with none of the words delete, remove, erase, clear,
\* discard, wipe, cancel, undo and without the phrase "get rid" removes no
\* object from the canonical scene, and the notes of the envelope it applies
\* report how many delete and cancel commands of the reply were ignored.
C7_NoRemovalWithoutVocabulary ==
    (done.op \in {"utterance", "refused"}
        /\ ~HasAny(done.utterance, DeleteWords \cup CancelWords))
        => /\ ObjectIds(done.before) \subseteq ObjectIds(canonical.sceneGraph)
           /\ (done.op = "utterance" /\ Destructive(ReplyCommands(done.reply)) # <<>>)
                 => HasFragments(done.envelope.notes,
                        <<"ignored ",
                          ToString(Len(Destructive(ReplyCommands(done.reply)))),
                          " destructive command(s)">>)

\* a cancel and a delete inside batches ignored, the object still there
C7_Witness ==
    /\ done.op = "utterance"
    /\ ~HasAny(done.utterance, DeleteWords \cup CancelWords)
    /\ Len(Destructive(ReplyCommands(done.reply))) = 2
    /\ \E c \in Range(ReplyCommands(done.reply)) : c.type = "batch"
    /\ "tree-1" \in ObjectIds(done.before)
    /\ "tree-1" \in ObjectIds(canonical.sceneGraph)
    /\ HasFragments(done.envelope.notes, <<"ignored ", "2", " destructive command(s)">>)

\* C10 as stated, the conversion vocabulary being the listed phrases: an
\* utterance without them changes the semanticTag of no object of the scene.
C10_NoTagChangeWithoutListedPhrases ==
    (done.op \in {"utterance", "refused"}
        /\ ~HasAny(done.utterance, ListedConversionPhrases))
        => \A id \in ObjectIds(done.before) \cap ObjectIds(canonical.sceneGraph) :
              canonical.sceneGraph.objects[id].semanticTag
                  = done.before.objects[id].semanticTag

\* C10: an utterance without the phrases turn into, convert, transform,
\* change into and make it into changes the semanticTag of no object that the
\* applied envelope leaves in the scene (one it neither deletes nor cancels).
C10_NoTagChangeWithoutVocabulary ==
    (done.op \in {"utterance", "refused"}
        /\ ~HasAny(done.utterance, ConversionPhrases))
        => \A id \in ObjectIds(done.before) \cap ObjectIds(canonical.sceneGraph) :
              \/ \E c \in Range(Destructive(Val(done.envelope.commands))) : c.id = id
              \/ canonical.sceneGraph.objects[id].semanticTag
                     = done.before.objects[id].semanticTag

\* the tag written in an object wrapper and in a patch, both inside a batch,
\* and the object's tag as it was
C10_Witness ==
    /\ done.op = "utterance"
    /\ ~HasAny(done.utterance, ConversionPhrases)
    /\ \E c \in Range(ReplyCommands(done.reply)) :
          /\ c.type = "batch"
          /\ \E u \in Range(Val(c.commands)) :
                Has(u.object) /\ Val(u.object).semanticTag = "bush"
    /\ HasFragments(done.envelope.notes, <<"ignored ", "2", " semanticTag change(s)">>)
    /\ "tree-1" \in ObjectIds(done.before)
    /\ canonical.sceneGraph.objects["tree-1"].semanticTag = "tree"

(***************************************************************************)
(* Claims about the safety guard, checked under SpecGuard                  *)
(***************************************************************************)
\* a command without the semanticTag of its patch
SansTag(cmd) ==
    IF Has(cmd.patch) THEN [cmd EXCEPT !.patch = Some([Val(@) EXCEPT !.semanticTag = Undef])]
    ELSE cmd

SansTags(cmds) == [i \in 1..Len(cmds) |-> SansTag(cmds[i])]

\* the leaf commands the guard is to keep, given whether the utterance asks
\* for deletes and for cancels
Kept(cmds, wantsDelete, wantsCancel) ==
    SelectSeq(Leaves(cmds),
              LAMBDA c : /\ c.type = "delete_object" => wantsDelete
                         /\ c.type = "cancel_preview_object" => wantsCancel)

Updates(cmds) == SelectSeq(Leaves(cmds), LAMBDA c : c.type \in UpdateTypes)

\* C8 as stated: delete and cancel commands are removed unless the utterance
\* has one of the listed words, and the other commands keep their order.
C8_GuardByListedWords ==
    guardRun.phase = "output" =>
        SansTags(Leaves(guardRun.out.cmds))
            = SansTags(Kept(guardRun.cmds,
                            HasAny(guardRun.utterance, ListedDestructiveWords),
                            HasAny(guardRun.utterance, ListedDestructiveWords)))

\* C8: a delete_object is removed unless the utterance has one of delete,
\* remove, erase, clear, get rid, discard, wipe; a cancel_preview_object is
\* removed unless it has one of cancel, discard, undo; every other command is
\* kept, in the original relative order, and the count of removals is right.
C8_GuardByVocabulary ==
    guardRun.phase = "output" =>
        /\ SansTags(Leaves(guardRun.out.cmds))
              = SansTags(Kept(guardRun.cmds, HasAny(guardRun.utterance, DeleteWords),
                              HasAny(guardRun.utterance, CancelWords)))
        /\ guardRun.out.removed
              = Len(Leaves(guardRun.cmds)) - Len(Leaves(guardRun.out.cmds))

\* "undo": the cancel is kept, the delete next to it removed
C8_Witness ==
    /\ guardRun.phase = "output"
    /\ HasAny(guardRun.utterance, CancelWords)
    /\ ~HasAny(guardRun.utterance, DeleteWords)
    /\ \E c \in Range(Leaves(guardRun.cmds)) : c.type = "delete_object"
    /\ \E c \in Range(Leaves(guardRun.cmds)) : c.type = "cancel_preview_object"
    /\ \E c \in Range(Leaves(guardRun.out.cmds)) : c.type = "cancel_preview_object"
    /\ \A c \in Range(Leaves(guardRun.out.cmds)) : c.type # "delete_object"

\* C9 as stated: the semanticTag of every update's patch is removed unless
\* the utterance has one of the listed phrases; nothing else of an update
\* changes.
C9_TagsByListedPhrases ==
    guardRun.phase = "output" =>
        Updates(guardRun.out.cmds)
            = IF HasAny(guardRun.utterance, ListedConversionPhrases)
              THEN Updates(guardRun.cmds) ELSE SansTags(Updates(guardRun.cmds))

\* C9: the semanticTag of every update's patch is removed unless the
\* utterance has one of turn into, convert, transform, change into, make it
\* into; the update and the other fields of its patch are kept unchanged.
C9_TagsByVocabulary ==
    guardRun.phase = "output" =>
        Updates(guardRun.out.cmds)
            = IF HasAny(guardRun.utterance, ConversionPhrases)
              THEN Updates(guardRun.cmds) ELSE SansTags(Updates(guardRun.cmds))

\* an update loses its tag and keeps its layer
C9_Witness ==
    /\ guardRun.phase = "output"
    /\ ~HasAny(guardRun.utterance, ConversionPhrases)
    /\ guardRun.out.strippedSemantic > 0
    /\ \E i \in 1..Len(Updates(guardRun.cmds)) :
          /\ Val(Updates(guardRun.cmds)[i].patch).semanticTag = "bush"
          /\ Val(Updates(guardRun.out.cmds)[i].patch).semanticTag = Undef
          /\ Val(Updates(guardRun.out.cmds)[i].patch).layer = "ground"

(***************************************************************************)
(* Claims about applyCommands and applyCommand, checked under SpecReplay   *)
(***************************************************************************)
\* two runs of the reducer agree: both raise, or both return the same scene
SameResult(a, b) == a.threw = b.threw /\ (~a.threw => a.scene = b.scene)

C12_BatchIsItsLeaves ==
    replay.phase = "flat" => SameResult(replay.flat, replay.whole)

\* a batch inside a batch inside a batch, whose commands changed the scene
C12_Witness ==
    /\ replay.phase = "flat"
    /\ \E c \in Range(replay.first \o replay.second) :
          /\ c.type = "batch"
          /\ \E d \in Range(Val(c.commands)) :
                /\ d.type = "batch"
                /\ \E e \in Range(Val(d.commands)) : e.type = "batch"
    /\ ~replay.whole.threw
    /\ replay.whole.scene # replay.start
    /\ Len(Leaves(replay.first \o replay.second)) > Len(replay.first \o replay.second)
    /\ replay.flat.scene = replay.whole.scene

\* the runs of applyCommand on one top-level command that the state holds:
\* the scene it was given, the command and the result
Steps ==
    (IF replay.phase \notin {"idle", "input"} /\ Len(replay.first) = 1
     THEN {[before |-> replay.start, cmd |-> replay.first[1], after |-> replay.mid]}
     ELSE {})
    \cup (IF replay.phase \notin {"idle", "input", "first"} /\ Len(replay.second) = 1
          THEN {[before |-> replay.mid.scene, cmd |-> replay.second[1],
                 after |-> replay.stepwise]}
          ELSE {})

\* the commands the specification calls no-ops on the scene sc
NoOpCase(sc, c) ==
    \/ /\ c.type = "commit_preview_object"
       /\ (c.id \notin DOMAIN sc.objects \/ sc.objects[c.id].status = "committed")
    \/ c.type \in UpdateTypes \cup DeleteTypes /\ c.id \notin DOMAIN sc.objects
    \/ c.type \in AddTypes /\ Val(c.object).id \in DOMAIN sc.objects

\* C13: a commit of an absent or committed id, an update, delete or cancel of
\* an absent id and an add of an existing id return the scene they were
\* given, objects, order and intent unchanged, and raise no error.
C13_NoOpsReturnTheScene ==
    \A st \in Steps :
        NoOpCase(st.before, st.cmd) => st.after = Ok(st.before)

\* C14: an update_preview_object or update_object of an object in status
\* preview leaves the object in status preview and its id in order.
C14_UpdateKeepsPreview ==
    \A st \in Steps :
        (/\ st.cmd.type \in UpdateTypes
         /\ st.cmd.id \in DOMAIN st.before.objects
         /\ st.before.objects[st.cmd.id].status = "preview"
         /\ st.cmd.id \in Range(st.before.order))
        => /\ ~st.after.threw
           /\ st.cmd.id \in DOMAIN st.after.scene.objects
           /\ st.after.scene.objects[st.cmd.id].status = "preview"
           /\ st.cmd.id \in Range(st.after.scene.order)

\* C15: a delete_object or cancel_preview_object of an existing object,
\* preview or committed, takes its id out of objects and out of order and
\* leaves every other object, the order of the remaining ids and the intent
\* as they were.
C15_DeleteRemovesOnlyTheTarget ==
    \A st \in Steps :
        (st.cmd.type \in DeleteTypes /\ st.cmd.id \in DOMAIN st.before.objects)
        => /\ ~st.after.threw
           /\ DOMAIN st.after.scene.objects = DOMAIN st.before.objects \ {st.cmd.id}
           /\ st.cmd.id \notin Range(st.after.scene.order)
           /\ \A id \in DOMAIN st.after.scene.objects :
                 st.after.scene.objects[id] = st.before.objects[id]
           /\ st.after.scene.order = Filter(st.before.order, st.cmd.id)
           /\ st.after.scene.intent = st.before.intent

\* a cancel_preview_object took a committed object out from between two
\* others, which kept their order
C15_Witness ==
    \E st \in Steps :
        /\ st.cmd.type = "cancel_preview_object"
        /\ st.cmd.id \in DOMAIN st.before.objects
        /\ st.before.objects[st.cmd.id].status = "committed"
        /\ Len(st.before.order) = 3 /\ st.before.order[2] = st.cmd.id
        /\ st.after.scene.order = <<st.before.order[1], st.before.order[3]>>
        /\ st.cmd.id \notin DOMAIN st.after.scene.objects

\* the key of the object id in the scene sc
KeyOf(sc, id) == orderKey(Get(sc.objects, id))

\* id stands at position p of order, right before the first object whose key
\* is greater than its own, and the other ids are in the order they had
PlacedByKey(before, after, id) ==
    /\ Filter(after.order, id) = Filter(before.order, id)
    /\ \E p \in 1..Len(after.order) :
          /\ after.order[p] = id
          /\ \A q \in 1..(p - 1) :
                ~Greater(KeyOf(after, after.order[q]), KeyOf(after, id))
          /\ p < Len(after.order)
                => Greater(KeyOf(after, after.order[p + 1]), KeyOf(after, id))

\* C16: an object that is added, or updated so that its key changes, is
\* placed right before the first object of order whose key is greater than
\* its own, the other objects keeping their relative order; an update that
\* leaves the object's key as it was leaves order as it was.
C16_StableInsertion ==
    \A st \in Steps :
        /\ (/\ st.cmd.type \in AddTypes
            /\ ~st.after.threw
            /\ Val(st.cmd.object).id \notin DOMAIN st.before.objects
            /\ Val(st.cmd.object).id \in DOMAIN st.after.scene.objects)
           => PlacedByKey(st.before, st.after.scene, Val(st.cmd.object).id)
        /\ (/\ st.cmd.type \in UpdateTypes
            /\ ~st.after.threw
            /\ st.cmd.id \in DOMAIN st.before.objects
            /\ st.cmd.id \in Range(st.before.order))
           => IF KeyOf(st.before, st.cmd.id) = KeyOf(st.after.scene, st.cmd.id)
              THEN st.after.scene.order = st.before.order
              ELSE PlacedByKey(st.before, st.after.scene, st.cmd.id)

(***************************************************************************)
(* Claims about the validator in the handlers, checked under SpecIntake    *)
(***************************************************************************)
\* some update among the commands, at any depth, has a patch with the key
\* id or the key type
PatchHasIdOrType(cmds) ==
    \E c \in Range(Leaves(cmds)) :
        /\ c.type \in UpdateTypes
        /\ Has(c.patch)
        /\ Val(c.patch).extra \cap {"id", "type"} # {}

\* C17: an envelope holding, at any batch depth, an update whose patch has
\* an id or a type key fails validation: the model's reply is refused, the
\* client's envelope is turned away, and the canonical scene stays as it was.
C17_KeyedPatchRejected ==
    (/\ done.op \in {"utterance", "refused", "manual", "invalid"}
     /\ PatchHasIdOrType(ReplyCommands(done.reply)))
    => /\ done.op \in {"refused", "invalid"}
       /\ done.op = "refused" => done.envelope.refusalReason = "schema_validation_failed"
       /\ canonical.sceneGraph = done.before

\* the model's reply adds a sky and patches the type of the tree, which is in
\* the scene, two batches deep: refused, the scene as it was
C17_Witness ==
    /\ done.op = "refused"
    /\ "tree-1" \in ObjectIds(done.before)
    /\ \E c \in Range(ReplyCommands(done.reply)) :
          /\ c.type = "batch"
          /\ PatchHasIdOrType(<<c>>)
          /\ \A d \in Range(Val(c.commands)) : d.type = "batch"
    /\ \E c \in Range(ReplyCommands(done.reply)) : c.type = "add_preview_object"
    /\ canonical.sceneGraph = done.before
    /\ "sky-1" \notin ObjectIds(canonical.sceneGraph)

\* some add among the commands, at any depth, has an object whose status is
\* not the one its command asks for
MismatchedAdd(cmds) ==
    \E c \in Range(Leaves(cmds)) :
        c.type \in AddTypes /\ Has(c.object) /\ Val(c.object).status # StatusFor(c.type)

\* C18: the validator turns away an add_preview_object whose object is not
\* in status preview and an add_object whose object is not in status
\* committed, so that an object an applied add_preview_object inserted is in
\* status preview, and one an applied add_object inserted is in status
\* committed.
C18_AddStatusFitsCommand ==
    done.op \in {"utterance", "refused", "manual", "invalid"}
    => /\ MismatchedAdd(ReplyCommands(done.reply))
             => /\ done.op \in {"refused", "invalid"}
                /\ canonical.sceneGraph = done.before
       /\ done.op \in {"utterance", "manual"}
             => \A c \in Range(Leaves(Val(done.envelope.commands))) :
                   (/\ c.type \in AddTypes
                    /\ Val(c.object).id \notin ObjectIds(done.before)
                    /\ Val(c.object).id \in ObjectIds(canonical.sceneGraph))
                   => canonical.sceneGraph.objects[Val(c.object).id].status
                          = StatusFor(c.type)

\* the model's add_preview_object put the tree into the scene, in preview
C18_Witness ==
    /\ done.op = "utterance"
    /\ \E c \in Range(Leaves(ReplyCommands(done.reply))) :
          c.type = "add_preview_object" /\ Val(c.object).id = "tree-1"
    /\ "tree-1" \notin ObjectIds(done.before)
    /\ "tree-1" \in ObjectIds(canonical.sceneGraph)
    /\ canonical.sceneGraph.objects["tree-1"].status = "preview"

(***************************************************************************)
(* Claims about stored transforms, checked under Spec                      *)
(***************************************************************************)
\* C19: every object of the scene has a transform with x and y in [0,100],
\* scale in [0.1,3] and rotation in [-180,180].
C19_TransformsInBounds ==
    \A id \in DOMAIN scene.objects :
        /\ Has(scene.objects[id].transform)
        /\ ValidTransform(Val(scene.objects[id].transform))

(***************************************************************************)
(* Claims about out-of-range transforms, checked under SpecIntake          *)
(***************************************************************************)
\* an add command with the fields of its object's transform saturated
Saturated(c) ==
    IF c.type \in AddTypes /\ Has(c.object) /\ Has(Val(c.object).transform)
    THEN [c EXCEPT !.object =
             Some([Val(@) EXCEPT !.transform = Some(clampTransform(Val(@)))])]
    ELSE c

\* the commands are top-level commands that the validator accepts once the
\* transforms of the adds are saturated, and does not accept as they are
WellFormedButForRange(cmds) ==
    /\ cmds # <<>>
    /\ \A i \in 1..Len(cmds) : ValidCommand(Saturated(cmds[i]))
    /\ \E i \in 1..Len(cmds) : cmds[i] # Saturated(cmds[i])

\* C20: a reply of the model that is well-formed but for an add whose
\* transform has a field out of range is not refused: the field is
\* saturated and the add reaches the reducer, which inserts the object.
C20_OutOfRangeIsSaturated ==
    (/\ done.op \in {"utterance", "refused"}
     /\ WellFormedButForRange(ReplyCommands(done.reply)))
    => /\ done.op = "utterance"
       /\ \A c \in Range(ReplyCommands(done.reply)) :
             c.type \in AddTypes
             => /\ Val(c.object).id \in ObjectIds(canonical.sceneGraph)
                /\ Val(c.object).id \notin ObjectIds(done.before)
                      => ValidTransform(Val(canonical.sceneGraph
                                               .objects[Val(c.object).id].transform))

(***************************************************************************)
(* Claims about clamping, checked under SpecClamp                          *)
(***************************************************************************)
FieldBounds ==
    [x |-> <<CoordMin, CoordMax>>, y |-> <<CoordMin, CoordMax>>,
     scale |-> <<ScaleMin, ScaleMax>>, rotation |-> <<RotationMin, RotationMax>>]

TransformFields == {"x", "y", "scale", "rotation"}

\* field f of the result is field f of the argument brought to its nearest
\* bound
SaturatedField(arg, out, f) ==
    IsNumber(arg[f]) =>
        /\ (arg[f] < FieldBounds[f][1] => out[f] = FieldBounds[f][1])
        /\ (arg[f] > FieldBounds[f][2] => out[f] = FieldBounds[f][2])
        /\ (arg[f] >= FieldBounds[f][1] /\ arg[f] <= FieldBounds[f][2] => out[f] = arg[f])

\* the transform of the spec's example, scale in tenths
FarOut == Transform(150, 0 - 50, 100, 500)

\* C21: clamping saturates and is idempotent: a field within its bounds comes
\* back unchanged (so a transform within bounds is returned as it is), a field
\* out of range comes back as its nearest bound ({x:150, y:-50, scale:10,
\* rotation:500} becomes {x:100, y:0, scale:3, rotation:180}), and clamping the
\* result again changes nothing.
C21_ClampSaturates ==
    /\ call.phase \in {"once", "twice"} =>
          /\ \A f \in TransformFields : SaturatedField(call.arg, call.out, f)
          /\ (ValidTransform(call.arg) => call.out = call.arg)
          /\ (call.arg = FarOut => call.out = Transform(100, 0, 30, 180))
    /\ call.phase = "twice" => call.again = call.out

C21_Witness ==
    /\ call.phase = "twice"
    /\ call.fn = "clampTransform"
    /\ call.arg = FarOut
    /\ call.out = Transform(100, 0, 30, 180)
    /\ call.again = call.out

(***************************************************************************)
(* Claims about refused envelopes, checked under SpecIntake                *)
(***************************************************************************)
\* extractJson and JSON.parse found no JSON value in the reply's text
ParseFailed(reply) == reply.json = "unparseable"

\* the reply is a JSON value that, normalized, is no CommandEnvelope
ValidationFailed(reply) ==
    /\ reply.json \notin {"unparseable", "rate_limited", "api_error"}
    /\ ~ValidEnvelope(normalizedCandidate(normalizeToEnvelope(reply)))

RefusedFor(envelope, reason) ==
    /\ envelope.refused = Some(TRUE)
    /\ envelope.refusalReason = reason
    /\ envelope.commands = Some(<<>>)

\* C22: when the model's text holds no JSON value the pipeline returns an
\* envelope with refused = true, refusalReason json_parse_failed and no
\* commands; when the normalized candidate is no valid envelope it returns one
\* with refusalReason schema_validation_failed and no commands.
C22_MalformedIsRefused ==
    done.op \in {"refused", "utterance"} =>
        /\ (ParseFailed(done.reply) =>
               done.op = "refused" /\ RefusedFor(done.envelope, "json_parse_failed"))
        /\ (ValidationFailed(done.reply) =>
               done.op = "refused"
               /\ RefusedFor(done.envelope, "schema_validation_failed"))

\* C23: an envelope with refused = true that the validator accepted or the
\* pipeline emitted has an empty commands list.
C23_RefusedHasNoCommands ==
    (done.op \in {"refused", "utterance", "manual"}
     /\ done.envelope.refused = Some(TRUE)) =>
        done.envelope.commands = Some(<<>>)

(***************************************************************************)
(* Claims about the revision and the session event log, checked under      *)
(* SpecServer                                                              *)
(***************************************************************************)
\* the step ends a handler that applied an envelope, refused an utterance or
\* reset the scene
Mutates ==
    /\ done' # done
    /\ \/ done'.op \in {"refused", "reset"}
       \/ done'.op \in {"utterance", "manual"} /\ ~done'.threw

\* C24: the revision never decreases, and it grows by exactly one with every
\* applied envelope, every refused utterance and every reset.
C24_RevisionCounts ==
    [][/\ canonical'.revision >= canonical.revision
       /\ (Mutates => canonical'.revision = canonical.revision + 1)]_vars

C24_Witness ==
    /\ done.op = "refused"
    /\ canonical.revision = 2
    /\ Len(applied) = 1

\* C25: right after a refused utterance or a reset the session event log is
\* not empty and its last entry is the event of that request.
C25_RefusalsAndResetsAreLogged ==
    done.op \in {"refused", "reset"} =>
        /\ canonical.sessionEvents # <<>>
        /\ (done.op = "refused" =>
               LET event == canonical.sessionEvents[Len(canonical.sessionEvents)]
               IN event.utterance = done.utterance /\ event.status = "rejected")

(***************************************************************************)
(* Claims about the length of the event log, checked under SpecLongSession *)
(***************************************************************************)
MaxEvents == EventWindow + 1

\* C26: the session event log never holds more than 100 events; an event
\* appended to a log of 100 drops the oldest one, the others keep their order
\* and the new event is last.
C26_LogIsBounded ==
    [][LET before == canonical.sessionEvents
           after == canonical'.sessionEvents
       IN /\ Len(before) <= MaxEvents
          /\ Len(after) <= MaxEvents
          /\ (after # before /\ after # <<>> =>
                IF Len(before) = MaxEvents
                THEN /\ Len(after) = MaxEvents
                     /\ SubSeq(after, 1, MaxEvents - 1) = Tail(before)
                ELSE SubSeq(after, 1, Len(after) - 1) = before)]_vars

C26_Witness ==
    /\ Len(canonical.sessionEvents) = MaxEvents
    /\ canonical.sessionEvents[1] = LoggedEvent(2)
    /\ canonical.sessionEvents[MaxEvents - 1] = LoggedEvent(MaxEvents)
    /\ canonical.sessionEvents[MaxEvents].status = "rejected"

(***************************************************************************)
(* Claims about the broadcasts, checked under SpecServer                   *)
(***************************************************************************)
\* the step applied an envelope or reset the scene
ChangesScene ==
    /\ done' # done
    /\ \/ done'.op = "reset"
       \/ done'.op \in {"utterance", "manual"} /\ ~done'.threw

\* C27: the handler that applies an envelope or resets the scene ends, before
\* any other request is served, with the broadcast of a scene_update carrying
\* the resulting scene graph and revision; the revisions of successive
\* scene_update broadcasts are strictly increasing.
C27_BroadcastAfterChange ==
    [][/\ ChangesScene =>
             /\ wire'.sent # <<>>
             /\ wire'.sent[Len(wire'.sent)] =
                   Message("scene_update", canonical'.sceneGraph,
                           canonical'.activePreviewIds, canonical'.revision)
       /\ (canonical'.sceneGraph # canonical.sceneGraph => ChangesScene)
       /\ \A i \in 1..Len(wire'.sent) :
             wire'.sent[i].type = "scene_update" =>
                /\ wire'.sent[i].revision > LastUpdate(wire)
                /\ \A j \in 1..(i - 1) :
                      wire'.sent[j].type = "scene_update" =>
                         wire'.sent[j].revision < wire'.sent[i].revision]_vars

C27_Witness ==
    /\ done.op = "reset"
    /\ done.before # createEmptyScene
    /\ wire.sent = <<Plain("status"), Message("scene_update", createEmptyScene, {}, 2)>>
    /\ wire.prev = 1
    /\ canonical.revision = 2

\* every command of cmds applied in turn by applyCommand, all or none
RECURSIVE AllApplied(_, _)
AllApplied(sc, cmds) ==
    IF cmds = <<>> THEN Ok(sc)
    ELSE LET r == applyCommand(sc, Head(cmds)) IN
         IF r.threw THEN Threw(sc) ELSE AllApplied(r.scene, Tail(cmds))

\* C28: an envelope is applied as a whole: a step that changes the canonical
\* scene graph either resets it or replaces it by the scene after all commands
\* of one envelope, and every scene_update broadcast carries such a scene,
\* never one in which only some of the envelope's commands are applied.
C28_EnvelopeAppliedWhole ==
    [][/\ canonical'.sceneGraph # canonical.sceneGraph =>
             \/ done'.op = "reset" /\ canonical'.sceneGraph = createEmptyScene
             \/ /\ done'.op \in {"utterance", "manual"}
                /\ ~AllApplied(canonical.sceneGraph,
                               Val(done'.envelope.commands)).threw
                /\ canonical'.sceneGraph =
                      AllApplied(canonical.sceneGraph,
                                 Val(done'.envelope.commands)).scene
       /\ \A i \in 1..Len(wire'.sent) :
             wire'.sent[i].type = "scene_update" =>
                wire'.sent[i].sceneGraph = canonical'.sceneGraph]_vars

C28_Witness ==
    /\ done.op = "utterance"
    /\ ~done.threw
    /\ Len(Val(done.envelope.commands)) = 2
    /\ "tree-1" \in DOMAIN done.before.objects
    /\ done.before.objects["tree-1"].semanticTag = "tree"
    /\ canonical.sceneGraph.objects["tree-1"].semanticTag = "bush"
    /\ wire.sent[Len(wire.sent)].sceneGraph = canonical.sceneGraph

(***************************************************************************)
(* Claims about the safety note, checked under SpecServer                  *)
(***************************************************************************)
\* the envelope the guard is handed for a reply that passed validation
GuardInput(reply) == ParsedEnvelope(normalizedCandidate(normalizeToEnvelope(reply)))

\* the destructive leaf commands of cmds, at any depth, that the guard removes
\* for utterance u
Suppressed(cmds, u) ==
    SelectSeq(Leaves(cmds),
              LAMBDA c : \/ c.type = "delete_object" /\ ~userExplicitlyWantsDelete(u)
                         \/ c.type = "cancel_preview_object"
                               /\ ~userExplicitlyWantsCancel(u))

\* the updates of cmds, at any depth, whose semanticTag the guard strips
Retagging(cmds, u) ==
    SelectSeq(Leaves(cmds),
              LAMBDA c : /\ c.type \in UpdateTypes
                         /\ Has(c.patch)
                         /\ Val(c.patch).semanticTag # Undef
                         /\ ~userExplicitlyWantsConvert(u))

\* notes with the safety note for r removed commands and t stripped tags
WithSafetyNote(notes, r, t) ==
    (IF Has(notes) /\ Val(notes) # <<>> THEN Val(notes) \o <<" ">> ELSE <<>>)
    \o <<"(Safety: ">>
    \o (IF r > 0 THEN <<"ignored ", ToString(r), " destructive command(s)">> ELSE <<>>)
    \o (IF r > 0 /\ t > 0 THEN <<"; ">> ELSE <<>>)
    \o (IF t > 0 THEN <<"ignored ", ToString(t), " semanticTag change(s)">> ELSE <<>>)
    \o <<")">>

\* C29: when the guard suppresses anything, at any batch depth, the notes of
\* the envelope gain a safety note that counts the destructive commands
\* removed and the semanticTag changes stripped; when it suppresses nothing
\* the notes are what they were.
C29_SafetyNoteCounts ==
    (/\ done.op \in {"utterance", "refused"}
     /\ done.reply.json \in {"envelope", "wrapped", "command"}
     /\ ValidEnvelope(normalizedCandidate(normalizeToEnvelope(done.reply)))) =>
        LET input == GuardInput(done.reply)
            r == Len(Suppressed(Val(input.commands), done.utterance))
            t == Len(Retagging(Val(input.commands), done.utterance))
        IN done.envelope.notes =
              IF r = 0 /\ t = 0 THEN input.notes
              ELSE Some(WithSafetyNote(input.notes, r, t))

C29_Witness ==
    /\ done.op = "utterance"
    /\ Len(Val(done.reply.env.commands)) = 1
    /\ done.reply.env.commands[1][1].type = "batch"
    /\ done.envelope.notes =
          Some(<<"(Safety: ", "ignored ", "2", " destructive command(s)", ")">>)

(***************************************************************************)
(* Claims about normalizeMissingPatch, checked under SpecNormalize         *)
(***************************************************************************)
PatchFields == {"transform", "shapes", "layer", "status", "semanticTag"}

\* field f of record r (a command, an object or a patch) holds a value
Present(r, f) == IF f \in {"transform", "shapes"} THEN Has(r[f]) ELSE r[f] # Undef

WrapperOf(cmd) == IF Has(cmd.object) THEN Val(cmd.object) ELSE EmptyObject

PatchOf(cmd) == IF Has(cmd.patch) THEN Val(cmd.patch) ELSE EmptyPatch

\* C30: normalizing an update moves every stray top-level transform, shapes,
\* layer, status and semanticTag, and every such field of a top-level object
\* wrapper, into patch, a field already in patch keeping its value; afterwards
\* these fields are in patch only.
C30_StrayFieldsFolded ==
    call.phase = "once" /\ call.fn = "normalizeMissingPatch" =>
        \A f \in PatchFields :
            /\ ~Present(call.out, f)
            /\ ~Present(WrapperOf(call.out), f)
            /\ (Present(PatchOf(call.arg), f) =>
                   PatchOf(call.out)[f] = PatchOf(call.arg)[f])
            /\ (~Present(PatchOf(call.arg), f) =>
                   /\ (Present(call.arg, f) \/ Present(WrapperOf(call.arg), f) =>
                          Present(PatchOf(call.out), f))
                   /\ (Present(PatchOf(call.out), f) =>
                          \/ Present(call.arg, f)
                               /\ PatchOf(call.out)[f] = call.arg[f]
                          \/ Present(WrapperOf(call.arg), f)
                               /\ PatchOf(call.out)[f] = WrapperOf(call.arg)[f]))
(***************************************************************************)
(* Claims about normalizeCommandArray, checked under SpecRepair            *)
(***************************************************************************)
\* C31: a command inside batches, at any depth, comes out of normalization
\* as the same command at top level does: renamed fields, a synthesized
\* object wrapper, stray fields folded into patch, line shapes converted.
C31_RepairsReachNestedCommands ==
    call.phase # "input" =>
        call.out = <<Nested(normalizeCommandArrayElement(call.arg.cmd), call.arg.depth)>>

RECURSIVE OnlyGrammarKeys(_)
\* the command carries the keys of the grammar and no other, and the lines in
\* its shapes are given by points
OnlyGrammarKeys(c) ==
    /\ ParsedCommand(c) = c
    /\ c.type \in {"update_preview_object", "update_object"} =>
          Has(c.patch) /\ (Has(Val(c.patch).shapes) =>
             \A i \in 1..Len(Val(Val(c.patch).shapes)) :
                ~NoPoints(Val(Val(c.patch).shapes)[i]))
    /\ c.type = "batch" /\ Has(c.commands) =>
          \A i \in 1..Len(Val(c.commands)) : OnlyGrammarKeys(Val(c.commands)[i])

\* the list satisfies the command grammar
GrammarValid(list) == \A i \in 1..Len(list) : ValidCommand(list[i])

RECURSIVE SumHeights(_)
SumHeights(rects) ==
    IF rects = <<>> THEN 0 ELSE Head(rects).height + SumHeights(Tail(rects))

\* the ids of the full-width rects among shapes
BandIds(shapes) ==
    {shapes[i].id : i \in {j \in 1..Len(shapes) : /\ shapes[j].type = "rect"
                                                  /\ shapes[j].x <= 1
                                                  /\ shapes[j].width >= 95
                                                  /\ shapes[j].height > 0}}

\* rects tile the span from 0 to height: each one spans the full width and
\* starts where the one before it ends, the heights are integers that differ
\* by at most one and sum to height
Tiles(rects, height) ==
    /\ \A i \in 1..Len(rects) :
          /\ rects[i].type = "rect"
          /\ rects[i].x = 0
          /\ rects[i].width = 100
          /\ rects[i].height \in Nat
          /\ rects[i].y = IF i = 1 THEN 0 ELSE rects[i - 1].y + rects[i - 1].height
    /\ \A i, j \in 1..Len(rects) : rects[i].height - rects[j].height <= 1
    /\ SumHeights(rects) = height

\* C33: band normalization of a stack of n >= 3 full-width rects against a
\* positive integer target height H returns those rects with x = 0 and
\* width = 100, integer heights that differ by at most one and sum to H, and
\* y values that start at 0 and continue without gap or overlap.
C33_BandsTileTheTarget ==
    call.phase = "once" /\ call.fn = "normalizeBandStack" =>
        /\ Has(call.out)
        /\ LET n == Cardinality(BandIds(call.arg.shapes))
               bands == SubSeq(Val(call.out), 1, n)
           IN /\ Len(Val(call.out)) = Len(call.arg.shapes)
              /\ {bands[i].id : i \in 1..n} = BandIds(call.arg.shapes)
              /\ Tiles(bands, call.arg.targetHeight)

\* three bands given bottom-up, next to other shapes, were tiled over a
\* height of 100 as 34, 33 and 33
C33_Witness ==
    /\ call.phase = "once" /\ call.fn = "normalizeBandStack"
    /\ call.arg.targetHeight = 100
    /\ Len(call.arg.shapes) = 5
    /\ call.arg.shapes[3].y > call.arg.shapes[5].y
    /\ [i \in 1..3 |-> <<Val(call.out)[i].y, Val(call.out)[i].height>>]
          = <<(<<0, 34>>), (<<34, 33>>), (<<67, 33>>)>>
    /\ Val(call.out)[1].id = BandId(2)

(***************************************************************************)
(* Claims about the realism pass, checked under SpecRealism                *)
(***************************************************************************)
\* the objects of the add commands among the leaves of cmds
AddedObjects(cmds) ==
    {Val(c.object) : c \in {l \in Range(Leaves(cmds)) :
                               l.type \in {"add_preview_object", "add_object"}}}

ShapeCountOk(obj) ==
    Has(obj.shapes) /\ Len(Val(obj.shapes)) >= 1 /\ Len(Val(obj.shapes)) <= 60

\* C34: for every add command whose object has 1 to 60 shapes and every
\* utterance, the object in the envelope the realism pass returns has 1 to 60
\* shapes.
C34_EnrichedWithinShapeLimit ==
    call.phase = "once" /\ call.fn = "applyRealismPass" =>
        ((\A obj \in AddedObjects(Val(call.arg.envelope.commands)) : ShapeCountOk(obj))
            => /\ Cardinality(AddedObjects(Val(call.out.commands))) = 1
               /\ \A obj \in AddedObjects(Val(call.out.commands)) : ShapeCountOk(obj))

\* a tree of 60 shapes was enriched on request and came out with another
\* number of shapes
C34_Witness ==
    /\ call.phase = "once" /\ call.fn = "applyRealismPass"
    /\ HasPhrase(call.arg.utterance, <<"realistic">>)
    /\ \E obj \in AddedObjects(Val(call.arg.envelope.commands)) :
          obj.semanticTag = "tree" /\ Len(Val(obj.shapes)) = 60
    /\ \E obj \in AddedObjects(Val(call.out.commands)) :
          Len(Val(obj.shapes)) # 60 /\ ShapeCountOk(obj)

(***************************************************************************)
(* Claims about object identity, checked under Spec                        *)
(***************************************************************************)
\* C35: every key k of the scene's objects holds an object whose id is k,
\* after any sequence of commands.
C35_KeyIsObjectId ==
    \A k \in DOMAIN scene.objects : scene.objects[k].id = k

(***************************************************************************)
(* Claims about the scene the stabilizer consults, checked under SpecStale *)
(***************************************************************************)
\* the reply holds an update command with a patch, at any batch depth
HasUpdatePatch(reply) ==
    \E c \in Range(Leaves(ReplyCommands(reply))) :
        c.type \in {"update_preview_object", "update_object"} /\ Has(c.patch)

\* C36: when the envelope of an utterance with update patches is applied,
\* the scene the stabilizer consulted for it is the scene the envelope is
\* applied to, whatever requests were served while the model call was
\* pending.
C36_StabilizerSeesAppliedScene ==
    [][\A r \in inflight \ inflight' :
          done'.op = "utterance" /\ HasUpdatePatch(done'.reply) =>
              r.sceneSummary = canonical.sceneGraph]_vars

(***************************************************************************)
(* Claims about added backdrops, checked under SpecBackdrop                *)
(***************************************************************************)
\* the height of the span an object of this layer is to cover
SpanHeight(layer, utterance) ==
    IF coverageModeFromUtterance(utterance) = "full_canvas" \/ layer = "background"
    THEN 100
    ELSE IF layer = "sky" THEN HORIZON_Y ELSE 100 - HORIZON_Y

\* rects, from top to bottom, follow one another without gap or overlap and
\* their heights sum to height
TilesSpan(rects, height) ==
    /\ \A i \in 2..Len(rects) : rects[i].y = rects[i - 1].y + rects[i - 1].height
    /\ SumHeights(rects) = height

\* C37: in the envelope the pipeline returns for the reducer, every added
\* backdrop object whose shapes form a band stack has band rects that are
\* contiguous, do not overlap and whose heights sum to the height of the
\* target span.
C37_AddedBandsStayTiled ==
    call.phase = "once" /\ call.fn = "generateCommandEnvelope" =>
        \A obj \in AddedObjects(Val(call.out.commands)) :
            isBackdrop(obj.semanticTag) /\ isBandStack(Val(obj.shapes)) =>
                TilesSpan(getBandRects(Val(obj.shapes)),
                          SpanHeight(obj.layer, call.arg.utterance))

(***************************************************************************)
(* Claims about activePreviewIds, checked under SpecServer                 *)
(***************************************************************************)
\* the keys under which sceneGraph holds an object of status preview
PreviewKeys(sceneGraph) ==
    {k \in DOMAIN sceneGraph.objects : sceneGraph.objects[k].status = "preview"}

\* C38: in every scene_update the server sends, activePreviewIds is the set
\* of the ids of the objects of status preview in the sceneGraph of the same
\* message.
C38_PreviewIdsMatchScene ==
    \A i \in 1..Len(wire.sent) :
        wire.sent[i].type = "scene_update" =>
            wire.sent[i].activePreviewIds = PreviewKeys(wire.sent[i].sceneGraph)

\* a scene_update went out for a scene with a preview and a committed object
C38_Witness ==
    \E i \in 1..Len(wire.sent) :
        /\ wire.sent[i].type = "scene_update"
        /\ wire.sent[i].activePreviewIds # {}
        /\ wire.sent[i].activePreviewIds # DOMAIN wire.sent[i].sceneGraph.objects
        /\ wire.sent[i].activePreviewIds = PreviewKeys(wire.sent[i].sceneGraph)

(***************************************************************************)
(* Claims about the client's history store, checked under SpecHistory      *)
(***************************************************************************)
\* the commands of the applied events of a list, in order, as one list
RECURSIVE AppliedCommands(_)
AppliedCommands(events) ==
    IF events = <<>> THEN <<>>
    ELSE (IF Head(events).status = "applied" THEN Head(events).commands ELSE <<>>)
         \o AppliedCommands(Tail(events))

\* C39: after any sequence of applyEvent, undo, redo, clear and reset calls,
\* the scene of the history store is the result of replaying, in order, the
\* commands of the applied events in events onto the base scene.
C39_SceneIsReplayOfEvents ==
    state.scene = clientApplyCommands(state.baseScene, AppliedCommands(state.events))

\* an undo took the last of two events away and left a scene that is not empty
C39_Witness ==
    /\ historyOp.op = "undo" /\ historyOp.ok
    /\ Len(state.events) = 1
    /\ state.scene # state.baseScene
    /\ state.scene # historyOp.before.scene
    /\ state.scene = clientApplyCommands(state.baseScene, AppliedCommands(state.events))

====
